---- MODULE Spec2Model ----
(***************************************************************************)
(* Format Store & Matcher of the format-learning module                    *)
(* (src/dashboard/lib/content-generator.ts, "Format Learning System") and  *)
(* the single-format API route (src/unnamed/part_005).                     *)
(*                                                                         *)
(* String operations (slugs, String.prototype.includes, split,             *)
(* toLowerCase) are computed on sequences of one-character strings:        *)
(* chars(s) gives the characters of a string of the model and intern(cs)   *)
(* the string with these characters.  JavaScript numbers are modelled as   *)
(* exact rationals <<n, d>>.                                               *)
(***************************************************************************)
EXTENDS Integers, Sequences, FiniteSets, TLC

VARIABLES formatStore, clock, lastOp, result, run

vars == <<formatStore, clock, lastOp, result, run>>

(* Bound of the model: the logical clock stops here.  The clock advances   *)
(* by one tick with every call that changes the store.                   *)
MaxClock == 3

-----------------------------------------------------------------------------
(* Strings *)

(* Every string the model stores or computes with, and its characters *)
Strings ==
  << <<"", <<>>>>,
     <<"linkedin", <<"l", "i", "n", "k", "e", "d", "i", "n">>>>,
     <<"twitter", <<"t", "w", "i", "t", "t", "e", "r">>>>,
     <<"question", <<"q", "u", "e", "s", "t", "i", "o", "n">>>>,
     <<"bold_statement", <<"b", "o", "l", "d", "_", "s", "t", "a", "t", "e", "m", "e", "n", "t">>>>,
     <<"story", <<"s", "t", "o", "r", "y">>>>,
     <<"list", <<"l", "i", "s", "t">>>>,
     <<"controversial_take", <<"c", "o", "n", "t", "r", "o", "v", "e", "r", "s", "i", "a", "l", "_", "t", "a", "k", "e">>>>,
     <<"statistic", <<"s", "t", "a", "t", "i", "s", "t", "i", "c">>>>,
     <<"quote", <<"q", "u", "o", "t", "e">>>>,
     <<"how_to", <<"h", "o", "w", "_", "t", "o">>>>,
     <<"none", <<"n", "o", "n", "e">>>>,
     <<"problem_solution", <<"p", "r", "o", "b", "l", "e", "m", "_", "s", "o", "l", "u", "t", "i", "o", "n">>>>,
     <<"story_driven", <<"s", "t", "o", "r", "y", "_", "d", "r", "i", "v", "e", "n">>>>,
     <<"listicle", <<"l", "i", "s", "t", "i", "c", "l", "e">>>>,
     <<"tutorial", <<"t", "u", "t", "o", "r", "i", "a", "l">>>>,
     <<"insight_sharing", <<"i", "n", "s", "i", "g", "h", "t", "_", "s", "h", "a", "r", "i", "n", "g">>>>,
     <<"comparison", <<"c", "o", "m", "p", "a", "r", "i", "s", "o", "n">>>>,
     <<"myth_busting", <<"m", "y", "t", "h", "_", "b", "u", "s", "t", "i", "n", "g">>>>,
     <<"lesson_learned", <<"l", "e", "s", "s", "o", "n", "_", "l", "e", "a", "r", "n", "e", "d">>>>,
     <<"thread", <<"t", "h", "r", "e", "a", "d">>>>,
     <<"narrative", <<"n", "a", "r", "r", "a", "t", "i", "v", "e">>>>,
     <<"question_to_audience", <<"q", "u", "e", "s", "t", "i", "o", "n", "_", "t", "o", "_", "a", "u", "d", "i", "e", "n", "c", "e">>>>,
     <<"link", <<"l", "i", "n", "k">>>>,
     <<"engagement_bait", <<"e", "n", "g", "a", "g", "e", "m", "e", "n", "t", "_", "b", "a", "i", "t">>>>,
     <<"follow_up", <<"f", "o", "l", "l", "o", "w", "_", "u", "p">>>>,
     <<"save_for_later", <<"s", "a", "v", "e", "_", "f", "o", "r", "_", "l", "a", "t", "e", "r">>>>,
     <<"share", <<"s", "h", "a", "r", "e">>>>,
     <<"comment_prompt", <<"c", "o", "m", "m", "e", "n", "t", "_", "p", "r", "o", "m", "p", "t">>>>,
     <<"curiosity", <<"c", "u", "r", "i", "o", "s", "i", "t", "y">>>>,
     <<"fear", <<"f", "e", "a", "r">>>>,
     <<"excitement", <<"e", "x", "c", "i", "t", "e", "m", "e", "n", "t">>>>,
     <<"validation", <<"v", "a", "l", "i", "d", "a", "t", "i", "o", "n">>>>,
     <<"surprise", <<"s", "u", "r", "p", "r", "i", "s", "e">>>>,
     <<"anger", <<"a", "n", "g", "e", "r">>>>,
     <<"nostalgia", <<"n", "o", "s", "t", "a", "l", "g", "i", "a">>>>,
     <<"inspiration", <<"i", "n", "s", "p", "i", "r", "a", "t", "i", "o", "n">>>>,
     <<"frustration", <<"f", "r", "u", "s", "t", "r", "a", "t", "i", "o", "n">>>>,
     <<"hope", <<"h", "o", "p", "e">>>>,
     <<"urgency", <<"u", "r", "g", "e", "n", "c", "y">>>>,
     <<"fomo", <<"f", "o", "m", "o">>>>,
     <<"linkedin-question-listicle", <<"l", "i", "n", "k", "e", "d", "i", "n", "-", "q", "u", "e", "s", "t", "i", "o", "n", "-", "l", "i", "s", "t", "i", "c", "l", "e">>>>,
     <<"linkedin-story-lesson", <<"l", "i", "n", "k", "e", "d", "i", "n", "-", "s", "t", "o", "r", "y", "-", "l", "e", "s", "s", "o", "n">>>>,
     <<"twitter-bold-insight", <<"t", "w", "i", "t", "t", "e", "r", "-", "b", "o", "l", "d", "-", "i", "n", "s", "i", "g", "h", "t">>>>,
     <<"educational", <<"e", "d", "u", "c", "a", "t", "i", "o", "n", "a", "l">>>>,
     <<"value-driven", <<"v", "a", "l", "u", "e", "-", "d", "r", "i", "v", "e", "n">>>>,
     <<"personal", <<"p", "e", "r", "s", "o", "n", "a", "l">>>>,
     <<"relatable", <<"r", "e", "l", "a", "t", "a", "b", "l", "e">>>>,
     <<"bold", <<"b", "o", "l", "d">>>>,
     <<"controversial", <<"c", "o", "n", "t", "r", "o", "v", "e", "r", "s", "i", "a", "l">>>>,
     <<"entrepreneurship", <<"e", "n", "t", "r", "e", "p", "r", "e", "n", "e", "u", "r", "s", "h", "i", "p">>>>,
     <<"startup", <<"s", "t", "a", "r", "t", "u", "p">>>>,
     <<"business", <<"b", "u", "s", "i", "n", "e", "s", "s">>>>,
     <<"entrepreneur", <<"e", "n", "t", "r", "e", "p", "r", "e", "n", "e", "u", "r">>>>,
     <<"founder", <<"f", "o", "u", "n", "d", "e", "r">>>>,
     <<"company", <<"c", "o", "m", "p", "a", "n", "y">>>>,
     <<"career", <<"c", "a", "r", "e", "e", "r">>>>,
     <<"job", <<"j", "o", "b">>>>,
     <<"interview", <<"i", "n", "t", "e", "r", "v", "i", "e", "w">>>>,
     <<"resume", <<"r", "e", "s", "u", "m", "e">>>>,
     <<"hiring", <<"h", "i", "r", "i", "n", "g">>>>,
     <<"promotion", <<"p", "r", "o", "m", "o", "t", "i", "o", "n">>>>,
     <<"leadership", <<"l", "e", "a", "d", "e", "r", "s", "h", "i", "p">>>>,
     <<"leader", <<"l", "e", "a", "d", "e", "r">>>>,
     <<"management", <<"m", "a", "n", "a", "g", "e", "m", "e", "n", "t">>>>,
     <<"team", <<"t", "e", "a", "m">>>>,
     <<"manager", <<"m", "a", "n", "a", "g", "e", "r">>>>,
     <<"executive", <<"e", "x", "e", "c", "u", "t", "i", "v", "e">>>>,
     <<"technology", <<"t", "e", "c", "h", "n", "o", "l", "o", "g", "y">>>>,
     <<"ai", <<"a", "i">>>>,
     <<"tech", <<"t", "e", "c", "h">>>>,
     <<"software", <<"s", "o", "f", "t", "w", "a", "r", "e">>>>,
     <<"code", <<"c", "o", "d", "e">>>>,
     <<"developer", <<"d", "e", "v", "e", "l", "o", "p", "e", "r">>>>,
     <<"automation", <<"a", "u", "t", "o", "m", "a", "t", "i", "o", "n">>>>,
     <<"finance", <<"f", "i", "n", "a", "n", "c", "e">>>>,
     <<"money", <<"m", "o", "n", "e", "y">>>>,
     <<"invest", <<"i", "n", "v", "e", "s", "t">>>>,
     <<"wealth", <<"w", "e", "a", "l", "t", "h">>>>,
     <<"financial", <<"f", "i", "n", "a", "n", "c", "i", "a", "l">>>>,
     <<"income", <<"i", "n", "c", "o", "m", "e">>>>,
     <<"revenue", <<"r", "e", "v", "e", "n", "u", "e">>>>,
     <<"productivity", <<"p", "r", "o", "d", "u", "c", "t", "i", "v", "i", "t", "y">>>>,
     <<"habits", <<"h", "a", "b", "i", "t", "s">>>>,
     <<"efficiency", <<"e", "f", "f", "i", "c", "i", "e", "n", "c", "y">>>>,
     <<"time", <<"t", "i", "m", "e">>>>,
     <<"focus", <<"f", "o", "c", "u", "s">>>>,
     <<"marketing", <<"m", "a", "r", "k", "e", "t", "i", "n", "g">>>>,
     <<"sales", <<"s", "a", "l", "e", "s">>>>,
     <<"growth", <<"g", "r", "o", "w", "t", "h">>>>,
     <<"customer", <<"c", "u", "s", "t", "o", "m", "e", "r">>>>,
     <<"brand", <<"b", "r", "a", "n", "d">>>>,
     <<"self-improvement", <<"s", "e", "l", "f", "-", "i", "m", "p", "r", "o", "v", "e", "m", "e", "n", "t">>>>,
     <<"mindset", <<"m", "i", "n", "d", "s", "e", "t">>>>,
     <<"success", <<"s", "u", "c", "c", "e", "s", "s">>>>,
     <<"goals", <<"g", "o", "a", "l", "s">>>>,
     <<"improve", <<"i", "m", "p", "r", "o", "v", "e">>>>,
     <<"QUESTION", <<"Q", "U", "E", "S", "T", "I", "O", "N">>>>,
     <<"BOLD_STATEMENT", <<"B", "O", "L", "D", "_", "S", "T", "A", "T", "E", "M", "E", "N", "T">>>>,
     <<"STORY", <<"S", "T", "O", "R", "Y">>>>,
     <<"LIST", <<"L", "I", "S", "T">>>>,
     <<"CONTROVERSIAL_TAKE", <<"C", "O", "N", "T", "R", "O", "V", "E", "R", "S", "I", "A", "L", "_", "T", "A", "K", "E">>>>,
     <<"STATISTIC", <<"S", "T", "A", "T", "I", "S", "T", "I", "C">>>>,
     <<"QUOTE", <<"Q", "U", "O", "T", "E">>>>,
     <<"HOW_TO", <<"H", "O", "W", "_", "T", "O">>>>,
     <<"NONE", <<"N", "O", "N", "E">>>>,
     <<"QUESTION_TO_AUDIENCE", <<"Q", "U", "E", "S", "T", "I", "O", "N", "_", "T", "O", "_", "A", "U", "D", "I", "E", "N", "C", "E">>>>,
     <<"LINK", <<"L", "I", "N", "K">>>>,
     <<"ENGAGEMENT_BAIT", <<"E", "N", "G", "A", "G", "E", "M", "E", "N", "T", "_", "B", "A", "I", "T">>>>,
     <<"FOLLOW_UP", <<"F", "O", "L", "L", "O", "W", "_", "U", "P">>>>,
     <<"SAVE_FOR_LATER", <<"S", "A", "V", "E", "_", "F", "O", "R", "_", "L", "A", "T", "E", "R">>>>,
     <<"SHARE", <<"S", "H", "A", "R", "E">>>>,
     <<"COMMENT_PROMPT", <<"C", "O", "M", "M", "E", "N", "T", "_", "P", "R", "O", "M", "P", "T">>>>,
     <<"default-", <<"d", "e", "f", "a", "u", "l", "t", "-">>>>,
     <<"default-linkedin", <<"d", "e", "f", "a", "u", "l", "t", "-", "l", "i", "n", "k", "e", "d", "i", "n">>>>,
     <<"default-twitter", <<"d", "e", "f", "a", "u", "l", "t", "-", "t", "w", "i", "t", "t", "e", "r">>>>,
     <<"linkedin-question-listicle-save-for-later", <<"l", "i", "n", "k", "e", "d", "i", "n", "-", "q", "u", "e", "s", "t", "i", "o", "n", "-", "l", "i", "s", "t", "i", "c", "l", "e", "-", "s", "a", "v", "e", "-", "f", "o", "r", "-", "l", "a", "t", "e", "r">>>>,
     <<"linkedin-question-insight-sharing-question-to-audience", <<"l", "i", "n", "k", "e", "d", "i", "n", "-", "q", "u", "e", "s", "t", "i", "o", "n", "-", "i", "n", "s", "i", "g", "h", "t", "-", "s", "h", "a", "r", "i", "n", "g", "-", "q", "u", "e", "s", "t", "i", "o", "n", "-", "t", "o", "-", "a", "u", "d", "i", "e", "n", "c", "e">>>>,
     <<"linkedin-none-insight-sharing-none", <<"l", "i", "n", "k", "e", "d", "i", "n", "-", "n", "o", "n", "e", "-", "i", "n", "s", "i", "g", "h", "t", "-", "s", "h", "a", "r", "i", "n", "g", "-", "n", "o", "n", "e">>>>,
     <<"linkedin-none-insight-sharing-save-for-later", <<"l", "i", "n", "k", "e", "d", "i", "n", "-", "n", "o", "n", "e", "-", "i", "n", "s", "i", "g", "h", "t", "-", "s", "h", "a", "r", "i", "n", "g", "-", "s", "a", "v", "e", "-", "f", "o", "r", "-", "l", "a", "t", "e", "r">>>>,
     <<"linkedin-none-insight-sharing-follow-up", <<"l", "i", "n", "k", "e", "d", "i", "n", "-", "n", "o", "n", "e", "-", "i", "n", "s", "i", "g", "h", "t", "-", "s", "h", "a", "r", "i", "n", "g", "-", "f", "o", "l", "l", "o", "w", "-", "u", "p">>>>,
     <<"twitter-question-listicle-save-for-later", <<"t", "w", "i", "t", "t", "e", "r", "-", "q", "u", "e", "s", "t", "i", "o", "n", "-", "l", "i", "s", "t", "i", "c", "l", "e", "-", "s", "a", "v", "e", "-", "f", "o", "r", "-", "l", "a", "t", "e", "r">>>>,
     <<"twitter-question-insight-sharing-question-to-audience", <<"t", "w", "i", "t", "t", "e", "r", "-", "q", "u", "e", "s", "t", "i", "o", "n", "-", "i", "n", "s", "i", "g", "h", "t", "-", "s", "h", "a", "r", "i", "n", "g", "-", "q", "u", "e", "s", "t", "i", "o", "n", "-", "t", "o", "-", "a", "u", "d", "i", "e", "n", "c", "e">>>>,
     <<"twitter-none-insight-sharing-none", <<"t", "w", "i", "t", "t", "e", "r", "-", "n", "o", "n", "e", "-", "i", "n", "s", "i", "g", "h", "t", "-", "s", "h", "a", "r", "i", "n", "g", "-", "n", "o", "n", "e">>>>,
     <<"twitter-none-insight-sharing-save-for-later", <<"t", "w", "i", "t", "t", "e", "r", "-", "n", "o", "n", "e", "-", "i", "n", "s", "i", "g", "h", "t", "-", "s", "h", "a", "r", "i", "n", "g", "-", "s", "a", "v", "e", "-", "f", "o", "r", "-", "l", "a", "t", "e", "r">>>>,
     <<"twitter-none-insight-sharing-follow-up", <<"t", "w", "i", "t", "t", "e", "r", "-", "n", "o", "n", "e", "-", "i", "n", "s", "i", "g", "h", "t", "-", "s", "h", "a", "r", "i", "n", "g", "-", "f", "o", "l", "l", "o", "w", "-", "u", "p">>>>,
     <<"AI job", <<"A", "I", " ", "j", "o", "b">>>>,
     <<"AI sales automation", <<"A", "I", " ", "s", "a", "l", "e", "s", " ", "a", "u", "t", "o", "m", "a", "t", "i", "o", "n">>>>,
     <<"no-such-format", <<"n", "o", "-", "s", "u", "c", "h", "-", "f", "o", "r", "m", "a", "t">>>>,
     <<"Bookmark", <<"B", "o", "o", "k", "m", "a", "r", "k">>>>,
     <<"Stay tuned", <<"S", "t", "a", "y", " ", "t", "u", "n", "e", "d">>>>,
     <<"linkedin-question-insight-sharing", <<"l", "i", "n", "k", "e", "d", "i", "n", "-", "q", "u", "e", "s", "t", "i", "o", "n", "-", "i", "n", "s", "i", "g", "h", "t", "-", "s", "h", "a", "r", "i", "n", "g">>>>,
     <<"twitter-question-insight-sharing", <<"t", "w", "i", "t", "t", "e", "r", "-", "q", "u", "e", "s", "t", "i", "o", "n", "-", "i", "n", "s", "i", "g", "h", "t", "-", "s", "h", "a", "r", "i", "n", "g">>>>,
     <<"twitter-question-listicle", <<"t", "w", "i", "t", "t", "e", "r", "-", "q", "u", "e", "s", "t", "i", "o", "n", "-", "l", "i", "s", "t", "i", "c", "l", "e">>>> >>

charsOf ==
  [s \in {Strings[i][1] : i \in 1..Len(Strings)} |->
     Strings[CHOOSE i \in 1..Len(Strings) : Strings[i][1] = s][2]]

stringOf ==
  [cs \in {Strings[i][2] : i \in 1..Len(Strings)} |->
     Strings[CHOOSE i \in 1..Len(Strings) : Strings[i][2] = cs][1]]

(* the characters of a string, and the string made of given characters *)
chars(s) == charsOf[s]

intern(cs) == stringOf[cs]

UpperLetters == <<"A", "B", "C", "D", "E", "F", "G", "H", "I", "J", "K", "L", "M", "N", "O", "P", "Q", "R", "S", "T", "U", "V", "W", "X", "Y", "Z">>

LowerLetters == <<"a", "b", "c", "d", "e", "f", "g", "h", "i", "j", "k", "l", "m", "n", "o", "p", "q", "r", "s", "t", "u", "v", "w", "x", "y", "z">>

Digits == <<"0", "1", "2", "3", "4", "5", "6", "7", "8", "9">>

lowerOf ==
  [c \in {UpperLetters[i] : i \in 1..Len(UpperLetters)} |->
     LowerLetters[CHOOSE i \in 1..Len(UpperLetters) : UpperLetters[i] = c]]

upperOf ==
  [c \in {LowerLetters[i] : i \in 1..Len(LowerLetters)} |->
     UpperLetters[CHOOSE i \in 1..Len(LowerLetters) : LowerLetters[i] = c]]

(* String.prototype.toLowerCase / toUpperCase, on characters *)
toLowerCase(s) == [i \in 1..Len(s) |-> IF s[i] \in DOMAIN lowerOf THEN lowerOf[s[i]] ELSE s[i]]

toUpperCase(s) == [i \in 1..Len(s) |-> IF s[i] \in DOMAIN upperOf THEN upperOf[s[i]] ELSE s[i]]

Range(s) == {s[i] : i \in 1..Len(s)}

(* String.prototype.includes *)
includes(s, sub) ==
  \E i \in 0..(Len(s) - Len(sub)) : \A j \in 1..Len(sub) : s[i + j] = sub[j]

(* s.split(' ')[0] *)
splitFirst(s) ==
  IF \E i \in 1..Len(s) : s[i] = " "
  THEN SubSeq(s, 1, (CHOOSE i \in 1..Len(s) : s[i] = " " /\ \A j \in 1..(i - 1) : s[j] # " ") - 1)
  ELSE s

(* content.split('\n').filter(l => l.trim()).length > 0 *)
WhiteSpace == {" ", "\n", "\t", "\r"}

hasNonBlankLine(content) == \E i \in 1..Len(content) : content[i] \notin WhiteSpace

(* Array.prototype.includes on an array of strings *)
arrayIncludes(arr, x) == \E i \in 1..Len(arr) : arr[i] = x

RECURSIVE dedupe(_)
(* [...new Set(arr)]: first occurrences, in order *)
dedupe(arr) ==
  IF arr = <<>> THEN <<>>
  ELSE LET init == dedupe(SubSeq(arr, 1, Len(arr) - 1))
           x == arr[Len(arr)]
       IN IF arrayIncludes(init, x) THEN init ELSE Append(init, x)

-----------------------------------------------------------------------------
(* Numbers: exact rationals <<numerator, denominator>>, denominator > 0,   *)
(* in lowest terms.                                                        *)

Abs(x) == IF x < 0 THEN -x ELSE x

RECURSIVE GCD(_, _)
GCD(a, b) == IF b = 0 THEN a ELSE GCD(b, a % b)

Rat(n, d) ==
  LET g == GCD(Abs(n), d)
  IN IF g = 0 THEN <<0, 1>> ELSE <<n \div g, d \div g>>

Num(k) == <<k, 1>>

RAdd(a, b) == Rat(a[1] * b[2] + b[1] * a[2], a[2] * b[2])

RSub(a, b) == Rat(a[1] * b[2] - b[1] * a[2], a[2] * b[2])

RMul(a, b) == Rat(a[1] * b[1], a[2] * b[2])

RLt(a, b) == a[1] * b[2] < b[1] * a[2]

RLe(a, b) == a[1] * b[2] <= b[1] * a[2]

RMin(a, b) == IF RLt(b, a) THEN b ELSE a

RMax(a, b) == IF RLt(a, b) THEN b ELSE a

-----------------------------------------------------------------------------
(* Closed value sets (types/social-media.ts) *)

linkedin == "linkedin"

twitter == "twitter"

Platform == {linkedin, twitter}

HookType ==
  [ QUESTION |-> "question",
    BOLD_STATEMENT |-> "bold_statement",
    STORY |-> "story",
    LIST |-> "list",
    CONTROVERSIAL_TAKE |-> "controversial_take",
    STATISTIC |-> "statistic",
    QUOTE |-> "quote",
    HOW_TO |-> "how_to",
    NONE |-> "none" ]

BodyType ==
  [ PROBLEM_SOLUTION |-> "problem_solution",
    STORY_DRIVEN |-> "story_driven",
    LISTICLE |-> "listicle",
    TUTORIAL |-> "tutorial",
    INSIGHT_SHARING |-> "insight_sharing",
    COMPARISON |-> "comparison",
    MYTH_BUSTING |-> "myth_busting",
    LESSON_LEARNED |-> "lesson_learned",
    THREAD |-> "thread",
    NARRATIVE |-> "narrative" ]

CTAType ==
  [ QUESTION_TO_AUDIENCE |-> "question_to_audience",
    LINK |-> "link",
    ENGAGEMENT_BAIT |-> "engagement_bait",
    FOLLOW_UP |-> "follow_up",
    SAVE_FOR_LATER |-> "save_for_later",
    SHARE |-> "share",
    COMMENT_PROMPT |-> "comment_prompt",
    NONE |-> "none" ]

EmotionalTrigger ==
  [ CURIOSITY |-> "curiosity",
    FEAR |-> "fear",
    EXCITEMENT |-> "excitement",
    VALIDATION |-> "validation",
    SURPRISE |-> "surprise",
    ANGER |-> "anger",
    NOSTALGIA |-> "nostalgia",
    INSPIRATION |-> "inspiration",
    FRUSTRATION |-> "frustration",
    HOPE |-> "hope",
    URGENCY |-> "urgency",
    FOMO |-> "fomo" ]

HookTypes == {HookType[k] : k \in DOMAIN HookType}

BodyTypes == {BodyType[k] : k \in DOMAIN BodyType}

CTATypes == {CTAType[k] : k \in DOMAIN CTAType}

-----------------------------------------------------------------------------
(* Derived strings of a learned format *)

(* generateFormatId: `${platform}-${hook}-${body}-${cta}`, lower-cased,     *)
(* every character outside [a-z0-9-] replaced by '-'.                      *)
SlugChars == Range(LowerLetters) \cup Range(Digits) \cup {"-"}

(* a slug of the platform, the hook type and the body type only *)
formatIdChars_WithoutCTA(formatPattern, platform) ==
  LET hash == chars(platform) \o <<"-">> \o chars(formatPattern.hookType) \o <<"-">>
                \o chars(formatPattern.bodyType)
      lower == toLowerCase(hash)
  IN [i \in 1..Len(lower) |-> IF lower[i] \in SlugChars THEN lower[i] ELSE "-"]

formatIdChars(formatPattern, platform) ==
  LET hash == chars(platform) \o <<"-">> \o chars(formatPattern.hookType) \o <<"-">>
                \o chars(formatPattern.bodyType) \o <<"-">> \o chars(formatPattern.ctaType)
      lower == toLowerCase(hash)
  IN [i \in 1..Len(lower) |-> IF lower[i] \in SlugChars THEN lower[i] ELSE "-"]

(* an id that leaves the call to action out *)
generateFormatId_WithoutCTA(formatPattern, platform) ==
  intern(formatIdChars_WithoutCTA(formatPattern, platform))

generateFormatId(formatPattern, platform) ==
  intern(formatIdChars(formatPattern, platform))

hookNames ==
  [h \in HookTypes |->
     CASE h = HookType.QUESTION -> "Question Hook"
       [] h = HookType.BOLD_STATEMENT -> "Bold Statement"
       [] h = HookType.STORY -> "Story Opener"
       [] h = HookType.LIST -> "List Intro"
       [] h = HookType.CONTROVERSIAL_TAKE -> "Controversial"
       [] h = HookType.STATISTIC -> "Data-Led"
       [] h = HookType.QUOTE -> "Quote-Led"
       [] h = HookType.HOW_TO -> "How-To"
       [] h = HookType.NONE -> "Direct"]

bodyNames ==
  [b \in BodyTypes |->
     CASE b = BodyType.PROBLEM_SOLUTION -> "Problem-Solution"
       [] b = BodyType.STORY_DRIVEN -> "Story-Driven"
       [] b = BodyType.LISTICLE -> "Listicle"
       [] b = BodyType.TUTORIAL -> "Tutorial"
       [] b = BodyType.INSIGHT_SHARING -> "Insight"
       [] b = BodyType.COMPARISON -> "Comparison"
       [] b = BodyType.MYTH_BUSTING -> "Myth-Buster"
       [] b = BodyType.LESSON_LEARNED -> "Lesson"
       [] b = BodyType.THREAD -> "Thread"
       [] b = BodyType.NARRATIVE -> "Narrative"]

(* Display strings are kept as sequences of their literal pieces and the   *)
(* interpolated values.                                                    *)
generateFormatName(formatPattern) ==
  <<hookNames[formatPattern.hookType], " ", bodyNames[formatPattern.bodyType]>>

generateFormatDescription(formatPattern, platform) ==
  <<"Format using ", formatPattern.hookType, " hook with ", formatPattern.bodyType,
    " structure and ", formatPattern.ctaType, " call-to-action. ",
    IF platform = linkedin THEN "Optimized for LinkedIn professional audience."
                           ELSE "Optimized for Twitter/X engagement.">>

(* generateTemplate: the lines of the template, each a sequence of pieces *)
generateTemplate(content, formatPattern) ==
  IF ~hasNonBlankLine(chars(content)) THEN <<>>
  ELSE <<<<"[HOOK: ", intern(toUpperCase(chars(formatPattern.hookType))), "]">>,
         <<"{First line - grab attention}">>, <<>>>>
       \o (IF formatPattern.bodyType = BodyType.LISTICLE
             THEN <<<<"[BODY: LIST FORMAT]">>, <<"1. {Point one}">>,
                    <<"2. {Point two}">>, <<"3. {Point three}">>>>
           ELSE IF formatPattern.bodyType = BodyType.PROBLEM_SOLUTION
             THEN <<<<"[BODY: PROBLEM -> SOLUTION]">>, <<"{Describe the problem}">>,
                    <<>>, <<"{Present the solution}">>>>
           ELSE IF formatPattern.bodyType = BodyType.STORY_DRIVEN
             THEN <<<<"[BODY: STORY]">>, <<"{Set the scene}">>, <<>>,
                    <<"{The conflict or challenge}">>, <<>>,
                    <<"{The resolution or insight}">>>>
           ELSE <<<<"[BODY: MAIN CONTENT]">>, <<"{Key insights and value}">>>>)
       \o <<<<>>, <<"[CTA: ", intern(toUpperCase(chars(formatPattern.ctaType))), "]">>,
            <<"{Call to action}">>>>

topicKeywords ==
  << [topic |-> "entrepreneurship",
      keywords |-> <<"startup", "business", "entrepreneur", "founder", "company">>],
     [topic |-> "career",
      keywords |-> <<"job", "career", "interview", "resume", "hiring", "promotion">>],
     [topic |-> "leadership",
      keywords |-> <<"leader", "management", "team", "manager", "executive">>],
     [topic |-> "technology",
      keywords |-> <<"ai", "tech", "software", "code", "developer", "automation">>],
     [topic |-> "finance",
      keywords |-> <<"money", "invest", "wealth", "financial", "income", "revenue">>],
     [topic |-> "productivity",
      keywords |-> <<"productivity", "habits", "efficiency", "time", "focus">>],
     [topic |-> "marketing",
      keywords |-> <<"marketing", "sales", "growth", "customer", "brand">>],
     [topic |-> "self-improvement",
      keywords |-> <<"growth", "mindset", "success", "goals", "improve">>] >>

RECURSIVE topicTags(_, _)
topicTags(lowerContent, k) ==
  IF k > Len(topicKeywords) THEN <<>>
  ELSE (IF \E i \in 1..Len(topicKeywords[k].keywords) :
              includes(lowerContent, chars(topicKeywords[k].keywords[i]))
          THEN <<topicKeywords[k].topic>> ELSE <<>>)
       \o topicTags(lowerContent, k + 1)

extractTags(content, analysis) ==
  LET tags == topicTags(toLowerCase(chars(content)), 1) \o analysis.viralSignals.emotionalTriggers
      unique == dedupe(tags)
  IN SubSeq(unique, 1, IF Len(unique) < 10 THEN Len(unique) ELSE 10)

-----------------------------------------------------------------------------
(* The store: a JavaScript Map, i.e. records in insertion order, one per id *)

storeIds(store) == {store[i].id : i \in 1..Len(store)}

storeHas(store, id) == id \in storeIds(store)

storeGet(store, id) == store[CHOOSE i \in 1..Len(store) : store[i].id = id]

(* Map.prototype.set: an existing key keeps its position *)
storeSet(store, id, format) ==
  IF storeHas(store, id)
  THEN [i \in 1..Len(store) |-> IF store[i].id = id THEN format ELSE store[i]]
  ELSE Append(store, format)

(* Map.prototype.delete *)
storeDelete(store, id) == SelectSeq(store, LAMBDA f : f.id # id)

(* new Date().toISOString() in a call that changes the store *)
Now == clock + 1

-----------------------------------------------------------------------------
(* initializeDefaultFormats *)

defaultFormats(now) ==
  << [ id |-> "linkedin-question-listicle",
       name |-> <<"Question Hook Listicle">>,
       description |-> <<"Opens with a question, delivers value through a numbered list">>,
       platform |-> linkedin,
       hookType |-> HookType.QUESTION,
       bodyType |-> BodyType.LISTICLE,
       ctaType |-> CTAType.SAVE_FOR_LATER,
       template |-> << <<"[HOOK: QUESTION]">>,
                       <<"{Ask a specific question your audience faces}">>,
                       <<>>,
                       <<"[BODY: NUMBERED LIST]">>,
                       <<"1. {First valuable point}">>,
                       <<"2. {Second valuable point}">>,
                       <<"3. {Third valuable point}">>,
                       <<>>,
                       <<"[CTA: SAVE]">>,
                       <<"Save this for later reference">> >>,
       examplePost |-> "",
       tags |-> <<"educational", "value-driven">>,
       effectivenessScore |-> Num(75),
       usageCount |-> 100,
       createdAt |-> now,
       updatedAt |-> now ],
     [ id |-> "linkedin-story-lesson",
       name |-> <<"Story-Driven Lesson">>,
       description |-> <<"Personal story that leads to a valuable lesson">>,
       platform |-> linkedin,
       hookType |-> HookType.STORY,
       bodyType |-> BodyType.LESSON_LEARNED,
       ctaType |-> CTAType.COMMENT_PROMPT,
       template |-> << <<"[HOOK: STORY]">>,
                       <<"{Set up the story with context}">>,
                       <<>>,
                       <<"[BODY: STORY + LESSON]">>,
                       <<"{Tell your story with the challenge}">>,
                       <<"{Share what you learned}">>,
                       <<>>,
                       <<"[CTA: COMMENT]">>,
                       <<"Have you experienced something similar? Share below.">> >>,
       examplePost |-> "",
       tags |-> <<"personal", "relatable", "story">>,
       effectivenessScore |-> Num(80),
       usageCount |-> 150,
       createdAt |-> now,
       updatedAt |-> now ],
     [ id |-> "twitter-bold-insight",
       name |-> <<"Bold Statement Insight">>,
       description |-> <<"Controversial or bold opening that delivers valuable insight">>,
       platform |-> twitter,
       hookType |-> HookType.BOLD_STATEMENT,
       bodyType |-> BodyType.INSIGHT_SHARING,
       ctaType |-> CTAType.ENGAGEMENT_BAIT,
       template |-> << <<"[HOOK: BOLD]">>,
                       <<"{Make a bold, attention-grabbing statement}">>,
                       <<>>,
                       <<"[BODY: INSIGHT]">>,
                       <<"{Back it up with insight}">>,
                       <<>>,
                       <<"[CTA: ENGAGEMENT]">>,
                       <<"RT if you agree">> >>,
       examplePost |-> "",
       tags |-> <<"bold", "controversial">>,
       effectivenessScore |-> Num(70),
       usageCount |-> 200,
       createdAt |-> now,
       updatedAt |-> now ] >>

RECURSIVE addMissing(_, _)
addMissing(store, formats) ==
  IF formats = <<>> THEN store
  ELSE addMissing(IF storeHas(store, Head(formats).id) THEN store
                  ELSE storeSet(store, Head(formats).id, Head(formats)),
                  Tail(formats))

(* variant: the seeds are never stored *)
initializeDefaultFormats_NoSeeds(store, now) == store

initializeDefaultFormats(store, now) == addMissing(store, defaultFormats(now))

-----------------------------------------------------------------------------
(* learnFromPost *)

(* variant: every observation weighs 0.3, whatever the usage count *)
calculateUpdatedEffectiveness_FixedWeight(currentScore, newScore, usageCount) ==
  LET weight == Rat(3, 10)
  IN RAdd(RMul(currentScore, RSub(Num(1), weight)), RMul(newScore, weight))

calculateUpdatedEffectiveness(currentScore, newScore, usageCount) ==
  LET weight == RMin(Rat(3, 10), Rat(1, usageCount + 1))
  IN RAdd(RMul(currentScore, RSub(Num(1), weight)), RMul(newScore, weight))

formatPatternOf(f) == [hookType |-> f.hookType, bodyType |-> f.bodyType, ctaType |-> f.ctaType]

(* an update that also takes the emotional triggers of the new analysis as tags *)
relearnedFormat_AbsorbsTags(existingFormat, analysis, now) ==
  [existingFormat EXCEPT
     !.effectivenessScore =
        calculateUpdatedEffectiveness(existingFormat.effectivenessScore,
                                      Num(analysis.viralityScore),
                                      existingFormat.usageCount),
     !.usageCount = existingFormat.usageCount + 1,
     !.tags = dedupe(existingFormat.tags \o analysis.viralSignals.emotionalTriggers),
     !.updatedAt = now]

(* the updatedFormat of learnFromPost *)
relearnedFormat(existingFormat, analysis, now) ==
  [existingFormat EXCEPT
     !.effectivenessScore =
        calculateUpdatedEffectiveness(existingFormat.effectivenessScore,
                                      Num(analysis.viralityScore),
                                      existingFormat.usageCount),
     !.usageCount = existingFormat.usageCount + 1,
     !.updatedAt = now]

(* the newFormat of learnFromPost *)
newFormat(formatId, post, analysis, now) ==
  [ id |-> formatId,
    name |-> generateFormatName(analysis.formatPattern),
    description |-> generateFormatDescription(analysis.formatPattern, post.platform),
    platform |-> post.platform,
    hookType |-> analysis.formatPattern.hookType,
    bodyType |-> analysis.formatPattern.bodyType,
    ctaType |-> analysis.formatPattern.ctaType,
    template |-> generateTemplate(post.content, analysis.formatPattern),
    examplePost |-> post.content,
    tags |-> extractTags(post.content, analysis),
    effectivenessScore |-> Num(analysis.viralityScore),
    usageCount |-> 1,
    createdAt |-> now,
    updatedAt |-> now ]

(* variant: a new record starts with usageCount 0 *)
learnFromPost_CountsFromZero(store, post, analysis, now) ==
  LET formatId == generateFormatId(analysis.formatPattern, post.platform)
  IN IF storeHas(store, formatId)
     THEN relearnedFormat(storeGet(store, formatId), analysis, now)
     ELSE [newFormat(formatId, post, analysis, now) EXCEPT !.usageCount = 0]

(* the record learnFromPost stores and returns *)
learnFromPost(store, post, analysis, now) ==
  LET formatId == generateFormatId(analysis.formatPattern, post.platform)
  IN IF storeHas(store, formatId)
     THEN relearnedFormat(storeGet(store, formatId), analysis, now)
     ELSE newFormat(formatId, post, analysis, now)

(* Inputs of the model *)
Posts ==
  { [platform |-> linkedin, content |-> ""],
    [platform |-> linkedin, content |-> "AI job"] }

Analyses ==
  { [ formatPattern |-> [hookType |-> HookType.QUESTION, bodyType |-> BodyType.INSIGHT_SHARING,
                         ctaType |-> CTAType.QUESTION_TO_AUDIENCE],
      viralityScore |-> 40,
      viralSignals |-> [emotionalTriggers |-> <<>>] ],
    [ formatPattern |-> [hookType |-> HookType.QUESTION, bodyType |-> BodyType.INSIGHT_SHARING,
                         ctaType |-> CTAType.QUESTION_TO_AUDIENCE],
      viralityScore |-> 80,
      viralSignals |-> [emotionalTriggers |-> <<EmotionalTrigger.HOPE>>] ],
    [ formatPattern |-> [hookType |-> HookType.QUESTION, bodyType |-> BodyType.LISTICLE,
                         ctaType |-> CTAType.SAVE_FOR_LATER],
      viralityScore |-> 80,
      viralSignals |-> [emotionalTriggers |-> <<>>] ] }

(* History of the current run of learn calls for one platform and triad *)
NoRun == [active |-> FALSE]

formatsFor(store, platform, formatPattern) ==
  {i \in 1..Len(store) : store[i].platform = platform /\ formatPatternOf(store[i]) = formatPattern}

runAfterLearn(post, analysis) ==
  IF run.active /\ run.platform = post.platform /\ run.formatPattern = analysis.formatPattern
  THEN [run EXCEPT !.n = run.n + 1]
  ELSE [ active |-> TRUE,
         platform |-> post.platform,
         formatPattern |-> analysis.formatPattern,
         n |-> 1,
         fresh |-> formatsFor(formatStore, post.platform, analysis.formatPattern) = {},
         baseIds |-> storeIds(formatStore) ]

LearnFromPost(post, analysis) ==
  /\ clock < MaxClock
  /\ LET format == learnFromPost(formatStore, post, analysis, Now)
     IN /\ formatStore' = storeSet(formatStore, format.id, format)
        /\ result' = [kind |-> "format", value |-> format]
  /\ clock' = Now
  /\ lastOp' = [op |-> "learnFromPost", post |-> post, analysis |-> analysis]
  /\ run' = runAfterLearn(post, analysis)

-----------------------------------------------------------------------------
(* getStoredFormats, getFormatById *)

RECURSIVE insertByScore(_, _)
(* position kept by a stable sort with comparator b.score - a.score *)
insertByScore(sorted, f) ==
  IF sorted = <<>> THEN <<f>>
  ELSE IF RLt(Head(sorted).effectivenessScore, f.effectivenessScore)
       THEN <<f>> \o sorted
       ELSE <<Head(sorted)>> \o insertByScore(Tail(sorted), f)

RECURSIVE sortByScoreDesc(_)
(* Array.prototype.sort((a, b) => b.effectivenessScore - a.effectivenessScore) *)
sortByScoreDesc(formats) ==
  IF formats = <<>> THEN <<>>
  ELSE insertByScore(sortByScoreDesc(SubSeq(formats, 1, Len(formats) - 1)),
                     formats[Len(formats)])

NoPlatform == ""

getStoredFormats(store, platform) ==
  IF platform # NoPlatform
  THEN SelectSeq(store, LAMBDA f : f.platform = platform)
  ELSE sortByScoreDesc(store)

GetStoredFormats(platform) ==
  /\ result' = [kind |-> "list", value |-> getStoredFormats(formatStore, platform)]
  /\ lastOp' = [op |-> "getStoredFormats", platform |-> platform]
  /\ UNCHANGED <<formatStore, clock, run>>

getFormatById(store, id) ==
  IF storeHas(store, id) THEN [kind |-> "format", value |-> storeGet(store, id)]
  ELSE [kind |-> "undefined"]

GetFormatById(id) ==
  /\ result' = getFormatById(formatStore, id)
  /\ lastOp' = [op |-> "getFormatById", id |-> id]
  /\ UNCHANGED <<formatStore, clock, run>>

-----------------------------------------------------------------------------
(* findBestMatch *)

(* options?.field && ... : the field is given and truthy *)
given(options, field) == field \in DOMAIN options

NoOptions == [field \in {} |-> 0]

matchingTags(format, topic) ==
  LET lowerTopic == toLowerCase(chars(topic))
  IN SelectSeq(format.tags,
               LAMBDA tag : \/ includes(lowerTopic, toLowerCase(chars(tag)))
                            \/ includes(toLowerCase(chars(tag)), splitFirst(lowerTopic)))

emotionMatches(format, options) ==
  IF given(options, "targetEmotions")
  THEN SelectSeq(options.targetEmotions, LAMBDA e : arrayIncludes(format.tags, e))
  ELSE <<>>

(* score += points when the condition holds *)
bonus(condition, points) == Num(IF condition THEN points ELSE 0)

hookPreferred(format, options) ==
  given(options, "preferredHook") /\ format.hookType = options.preferredHook

bodyPreferred(format, options) ==
  given(options, "preferredBody") /\ format.bodyType = options.preferredBody

ctaPreferred(format, options) ==
  given(options, "preferredCTA") /\ format.ctaType = options.preferredCTA

belowMinimum(format, options) ==
  /\ given(options, "minEffectiveness")
  /\ options.minEffectiveness # 0
  /\ RLt(format.effectivenessScore, Num(options.minEffectiveness))

(* variant: the penalty is applied after the popularity bonus *)
matchScore_PenaltyLast(format, options, topicTagsHit, emotionsHit) ==
  LET base == RMul(format.effectivenessScore, Rat(40, 100))
      tagged == RAdd(base, Num(Len(topicTagsHit) * 10))
      hooked == RAdd(tagged, bonus(hookPreferred(format, options), 15))
      bodied == RAdd(hooked, bonus(bodyPreferred(format, options), 15))
      ctaed == RAdd(bodied, bonus(ctaPreferred(format, options), 10))
      moved == RAdd(ctaed, Num(Len(emotionsHit) * 8))
      total == RAdd(moved, Num(IF format.usageCount * 2 < 10 THEN format.usageCount * 2 ELSE 10))
      floored == RMul(total, IF belowMinimum(format, options) THEN Rat(1, 2) ELSE Num(1))
  IN RMin(Num(100), floored)

(* the running `score` of calculateMatchScore, statement by statement *)
matchScore(format, options, topicTagsHit, emotionsHit) ==
  LET base == RMul(format.effectivenessScore, Rat(40, 100))
      tagged == RAdd(base, Num(Len(topicTagsHit) * 10))
      hooked == RAdd(tagged, bonus(hookPreferred(format, options), 15))
      bodied == RAdd(hooked, bonus(bodyPreferred(format, options), 15))
      ctaed == RAdd(bodied, bonus(ctaPreferred(format, options), 10))
      moved == RAdd(ctaed, Num(Len(emotionsHit) * 8))
      floored == RMul(moved, IF belowMinimum(format, options) THEN Rat(1, 2) ELSE Num(1))
      total == RAdd(floored, Num(IF format.usageCount * 2 < 10 THEN format.usageCount * 2 ELSE 10))
  IN RMin(Num(100), total)

(* the `matchingElements` of calculateMatchScore *)
matchingElements(format, options, topicTagsHit, emotionsHit) ==
  [i \in 1..Len(topicTagsHit) |-> <<"Topic match: ", topicTagsHit[i]>>]
  \o (IF hookPreferred(format, options) THEN <<<<"Preferred hook type">>>> ELSE <<>>)
  \o (IF bodyPreferred(format, options) THEN <<<<"Preferred body structure">>>> ELSE <<>>)
  \o (IF ctaPreferred(format, options) THEN <<<<"Preferred CTA type">>>> ELSE <<>>)
  \o [i \in 1..Len(emotionsHit) |-> <<"Emotion match: ", emotionsHit[i]>>]

calculateMatchScoreOf(format, options, topicTagsHit, emotionsHit) ==
  [ score |-> matchScore(format, options, topicTagsHit, emotionsHit),
    matchingElements |-> matchingElements(format, options, topicTagsHit, emotionsHit) ]

calculateMatchScore(format, topic, options) ==
  calculateMatchScoreOf(format, options, matchingTags(format, topic),
                        emotionMatches(format, options))

generateModifications(format, topic, options) ==
  (IF given(options, "preferredHook") /\ format.hookType # options.preferredHook
   THEN <<<<"Consider switching to ", options.preferredHook, " hook for better alignment">>>>
   ELSE <<>>)
  \o (IF given(options, "preferredCTA") /\ format.ctaType # options.preferredCTA
      THEN <<<<"Try ", options.preferredCTA, " CTA for higher engagement">>>>
      ELSE <<>>)
  \o (IF given(options, "targetEmotions")
      THEN LET missingEmotions ==
                 SelectSeq(options.targetEmotions, LAMBDA e : ~arrayIncludes(format.tags, e))
           IN IF Len(missingEmotions) > 0
              THEN <<<<"Add ", missingEmotions[1], " emotional elements">>>>
              ELSE <<>>
      ELSE <<>>)

defaultFormat(topic, platform, now) ==
  [ id |-> intern(chars("default-") \o chars(platform)),
    name |-> <<"Default Viral Format">>,
    description |-> <<"A balanced format suitable for most content types">>,
    platform |-> platform,
    hookType |-> HookType.QUESTION,
    bodyType |-> BodyType.INSIGHT_SHARING,
    ctaType |-> CTAType.QUESTION_TO_AUDIENCE,
    template |-> << <<"[HOOK: QUESTION]">>,
                    <<"{Ask a compelling question related to ", topic, "}">>,
                    <<>>,
                    <<"[BODY: INSIGHT]">>,
                    <<"{Share your key insight or perspective}">>,
                    <<"{Support with examples or data}">>,
                    <<>>,
                    <<"[CTA: QUESTION]">>,
                    <<"{Ask the audience for their thoughts}">> >>,
    examplePost |-> "",
    tags |-> <<topic>>,
    effectivenessScore |-> Num(50),
    usageCount |-> 0,
    createdAt |-> now,
    updatedAt |-> now ]

(* variant: the default format is returned but never stored *)
getDefaultFormatStore_NotPersisted(store, topic, platform, now) == store

(* getDefaultFormat: the store it leaves and the match it returns *)
getDefaultFormatStore(store, topic, platform, now) ==
  LET f == defaultFormat(topic, platform, now)
  IN IF ~storeHas(store, f.id) THEN storeSet(store, f.id, f) ELSE store

(* variant: the fallback reports the default's effectiveness as its match score *)
getDefaultFormat_ScoreOfDefault(topic, platform, now) ==
  LET f == defaultFormat(topic, platform, now)
  IN [ formatId |-> f.id,
       formatName |-> f.name,
       matchScore |-> f.effectivenessScore,
       matchingElements |-> <<<<"Default fallback format">>>>,
       suggestedModifications |->
         <<<<"Add more specific formats by learning from successful posts">>>> ]

getDefaultFormat(topic, platform, now) ==
  LET f == defaultFormat(topic, platform, now)
  IN [ formatId |-> f.id,
       formatName |-> f.name,
       matchScore |-> Num(30),
       matchingElements |-> <<<<"Default fallback format">>>>,
       suggestedModifications |->
         <<<<"Add more specific formats by learning from successful posts">>>> ]

(* variant: the first scored format is kept, later ones never replace it *)
bestMatchIndex_First(scored, i, best) ==
  IF best # 0 THEN best ELSE IF i > Len(scored) THEN 0 ELSE i

RECURSIVE bestMatchIndex(_, _, _)
(* the loop of findBestMatch over the scored formats: a later format replaces *)
(* the best one only with a strictly higher score                            *)
bestMatchIndex(scored, i, best) ==
  IF i > Len(scored) THEN best
  ELSE IF best = 0 \/ RLt(scored[best].score, scored[i].score)
       THEN bestMatchIndex(scored, i + 1, i)
       ELSE bestMatchIndex(scored, i + 1, best)

(* variant: the formats of every platform are scored *)
findBestMatch_OfAnyPlatform(store, topic, platform, options, now) ==
  LET formats == getStoredFormats(store, NoPlatform)
      scored == [i \in 1..Len(formats) |-> calculateMatchScore(formats[i], topic, options)]
      best == bestMatchIndex(scored, 1, 0)
  IN IF Len(getStoredFormats(store, platform)) = 0
     THEN getDefaultFormat(topic, platform, now)
     ELSE [ formatId |-> formats[best].id,
            formatName |-> formats[best].name,
            matchScore |-> scored[best].score,
            matchingElements |-> scored[best].matchingElements,
            suggestedModifications |-> generateModifications(formats[best], topic, options) ]

findBestMatch(store, topic, platform, options, now) ==
  LET formats == getStoredFormats(store, platform)
      scored == [i \in 1..Len(formats) |-> calculateMatchScore(formats[i], topic, options)]
      best == bestMatchIndex(scored, 1, 0)
  IN IF Len(formats) = 0
     THEN getDefaultFormat(topic, platform, now)
     ELSE [ formatId |-> formats[best].id,
            formatName |-> formats[best].name,
            matchScore |-> scored[best].score,
            matchingElements |-> scored[best].matchingElements,
            suggestedModifications |-> generateModifications(formats[best], topic, options) ]

findBestMatchStore(store, topic, platform, now) ==
  IF Len(getStoredFormats(store, platform)) = 0
  THEN getDefaultFormatStore(store, topic, platform, now)
  ELSE store

Topics == { "AI sales automation" }

MatchOptions ==
  { NoOptions,
    [ preferredHook |-> HookType.STORY,
      targetEmotions |-> <<EmotionalTrigger.HOPE>>,
      minEffectiveness |-> 78 ] }

FindBestMatch(topic, platform, options) ==
  /\ LET after == findBestMatchStore(formatStore, topic, platform, Now)
     IN /\ after # formatStore => clock < MaxClock
        /\ formatStore' = after
        /\ clock' = IF after # formatStore THEN Now ELSE clock
  /\ result' = [kind |-> "match",
                value |-> findBestMatch(formatStore, topic, platform, options, Now)]
  /\ lastOp' = [op |-> "findBestMatch", topic |-> topic, platform |-> platform,
                options |-> options]
  /\ UNCHANGED run

-----------------------------------------------------------------------------
(* updateFormat, deleteFormat, clearFormats *)

(* { ...existing, ...updates, updatedAt: now } *)
updatedFormat(existing, updates, now) ==
  [field \in DOMAIN existing |->
     IF field = "updatedAt" THEN now
     ELSE IF field \in DOMAIN updates THEN updates[field]
     ELSE existing[field]]

updateFormatStore(store, id, updates, now) ==
  IF ~storeHas(store, id) THEN store
  ELSE storeSet(store, id, updatedFormat(storeGet(store, id), updates, now))

updateFormat(store, id, updates, now) ==
  IF ~storeHas(store, id) THEN [kind |-> "null"]
  ELSE [kind |-> "format", value |-> updatedFormat(storeGet(store, id), updates, now)]

(* the ids a request may name *)
RequestIds ==
  { "twitter-bold-insight",
    "linkedin-question-insight-sharing-question-to-audience",
    "no-such-format" }

LibUpdates == { [usageCount |-> 3] }

UpdateFormat(id, updates) ==
  /\ storeHas(formatStore, id) => clock < MaxClock
  /\ formatStore' = updateFormatStore(formatStore, id, updates, Now)
  /\ result' = updateFormat(formatStore, id, updates, Now)
  /\ clock' = IF storeHas(formatStore, id) THEN Now ELSE clock
  /\ lastOp' = [op |-> "updateFormat", id |-> id, updates |-> updates]
  /\ run' = NoRun

(* variant: deletion reports success for any id *)
deleteFormat_AlwaysTrue(store, id) == [kind |-> "boolean", value |-> TRUE]

deleteFormat(store, id) == [kind |-> "boolean", value |-> storeHas(store, id)]

DeleteFormat(id) ==
  /\ storeHas(formatStore, id) => clock < MaxClock
  /\ formatStore' = storeDelete(formatStore, id)
  /\ result' = deleteFormat(formatStore, id)
  /\ clock' = IF storeHas(formatStore, id) THEN Now ELSE clock
  /\ lastOp' = [op |-> "deleteFormat", id |-> id]
  /\ run' = NoRun

ClearFormats ==
  /\ formatStore # <<>> => clock < MaxClock
  /\ formatStore' = <<>>
  /\ result' = [kind |-> "void"]
  /\ clock' = IF formatStore # <<>> THEN Now ELSE clock
  /\ lastOp' = [op |-> "clearFormats"]
  /\ run' = NoRun

-----------------------------------------------------------------------------
(* PUT /api/formats/[id] *)

clamp0to100(x) == IF x < 0 THEN 0 ELSE IF x > 100 THEN 100 ELSE x

PutFields ==
  {"name", "description", "template", "examplePost", "tags", "hookType", "bodyType", "ctaType"}

(* the `updates` object PUT builds from the request body *)
putUpdates(body) ==
  [field \in DOMAIN body \cap (PutFields \cup {"effectivenessScore"}) |->
     IF field = "effectivenessScore" THEN Num(clamp0to100(body[field]))
     ELSE body[field]]

PutBodies ==
  { [hookType |-> HookType.STORY, effectivenessScore |-> 150] }

PUT(id, body) ==
  /\ storeHas(formatStore, id) => clock < MaxClock
  /\ formatStore' = updateFormatStore(formatStore, id, putUpdates(body), Now)
  /\ result' = IF ~storeHas(formatStore, id)
               THEN [kind |-> "response", status |-> 404]
               ELSE [kind |-> "response", status |-> 200,
                     data |-> updateFormat(formatStore, id, putUpdates(body), Now).value]
  /\ clock' = IF storeHas(formatStore, id) THEN Now ELSE clock
  /\ lastOp' = [op |-> "PUT", id |-> id, body |-> body]
  /\ run' = NoRun

-----------------------------------------------------------------------------
(* PATCH /api/formats/[id] *)

(* Math.round: the nearest integer, halves rounded up *)
round(x) == (2 * x[1] + x[2]) \div (2 * x[2])

(* the `updates` object PATCH passes to updateFormat *)
patchUpdates(existingFormat, body) ==
  IF "incrementUsage" \in DOMAIN body /\ body.incrementUsage
  THEN [usageCount |-> existingFormat.usageCount + 1]
  ELSE [effectivenessScore |->
          Num(round(RMul(RAdd(existingFormat.effectivenessScore, Num(body.updateScore)),
                         Rat(1, 2))))]

(* neither incrementUsage nor updateScore: 400 *)
patchIsValid(body) ==
  \/ "incrementUsage" \in DOMAIN body /\ body.incrementUsage
  \/ "updateScore" \in DOMAIN body

PatchBodies ==
  { [incrementUsage |-> TRUE],
    [updateScore |-> 500] }

PATCH(id, body) ==
  /\ (storeHas(formatStore, id) /\ patchIsValid(body)) => clock < MaxClock
  /\ IF ~storeHas(formatStore, id)
     THEN /\ result' = [kind |-> "response", status |-> 404]
          /\ UNCHANGED <<formatStore, clock>>
     ELSE IF ~patchIsValid(body)
     THEN /\ result' = [kind |-> "response", status |-> 400]
          /\ UNCHANGED <<formatStore, clock>>
     ELSE /\ formatStore' = updateFormatStore(formatStore, id,
                               patchUpdates(storeGet(formatStore, id), body), Now)
          /\ result' = [kind |-> "response", status |-> 200,
                        data |-> updateFormat(formatStore, id,
                                   patchUpdates(storeGet(formatStore, id), body), Now).value]
          /\ clock' = Now
  /\ lastOp' = [op |-> "PATCH", id |-> id, body |-> body]
  /\ run' = NoRun

-----------------------------------------------------------------------------
(* exportFormats, importFormats *)

(* Array.from(formatStore.values()): the records in insertion order *)
exportFormats(store) == [i \in 1..Len(store) |-> store[i]]

ExportFormats ==
  /\ result' = [kind |-> "list", value |-> exportFormats(formatStore)]
  /\ lastOp' = [op |-> "exportFormats"]
  /\ UNCHANGED <<formatStore, clock, run>>

(* variant: a merge leaves the usage count of the stored record *)
mergedFormat_KeepsUsage(existing, format, now) ==
  [existing EXCEPT
     !.effectivenessScore =
        RMul(RAdd(existing.effectivenessScore, format.effectivenessScore), Rat(1, 2)),
     !.tags = dedupe(existing.tags \o format.tags),
     !.updatedAt = now]

(* variant: a merge counts the imported record as one more use *)
mergedFormat_CountsOneUse(existing, format, now) ==
  [existing EXCEPT
     !.effectivenessScore =
        RMul(RAdd(existing.effectivenessScore, format.effectivenessScore), Rat(1, 2)),
     !.usageCount = existing.usageCount + 1,
     !.tags = dedupe(existing.tags \o format.tags),
     !.updatedAt = now]

(* the `merged` record of importFormats *)
mergedFormat(existing, format, now) ==
  [existing EXCEPT
     !.effectivenessScore =
        RMul(RAdd(existing.effectivenessScore, format.effectivenessScore), Rat(1, 2)),
     !.usageCount = existing.usageCount + format.usageCount,
     !.tags = dedupe(existing.tags \o format.tags),
     !.updatedAt = now]

(* variant: every conflict is merged, whatever the strategy *)
importFormat_AlwaysMerges(store, format, mergeStrategy, now) ==
  IF ~storeHas(store, format.id)
  THEN storeSet(store, format.id, format)
  ELSE storeSet(store, format.id, mergedFormat(storeGet(store, format.id), format, now))

(* one turn of the loop of importFormats *)
importFormat(store, format, mergeStrategy, now) ==
  IF ~storeHas(store, format.id)
  THEN storeSet(store, format.id, format)
  ELSE IF mergeStrategy = "replace"
  THEN storeSet(store, format.id, format)
  ELSE IF mergeStrategy = "merge"
  THEN storeSet(store, format.id, mergedFormat(storeGet(store, format.id), format, now))
  ELSE store

RECURSIVE importFormats(_, _, _, _)
importFormats(store, formats, mergeStrategy, now) ==
  IF formats = <<>> THEN store
  ELSE importFormats(importFormat(store, Head(formats), mergeStrategy, now),
                     Tail(formats), mergeStrategy, now)

MergeStrategy == {"replace", "merge", "skip"}

(* A backup taken from another store: the twitter seed after an edit of its *)
(* score and tags, and a format learned there from one post                 *)
Backup ==
  << updatedFormat(defaultFormats(0)[3],
                   [effectivenessScore |-> Num(60),
                    tags |-> <<"bold", EmotionalTrigger.HOPE>>], 1),
     newFormat("linkedin-question-insight-sharing-question-to-audience",
               [platform |-> linkedin, content |-> "AI job"],
               [ formatPattern |-> [hookType |-> HookType.QUESTION,
                                    bodyType |-> BodyType.INSIGHT_SHARING,
                                    ctaType |-> CTAType.QUESTION_TO_AUDIENCE],
                 viralityScore |-> 60,
                 viralSignals |-> [emotionalTriggers |-> <<EmotionalTrigger.FEAR>>] ],
               1) >>

(* what a caller imports: the export of this store, or the backup *)
Imports(store) == {exportFormats(store), Backup}

ImportFormats(formats, mergeStrategy) ==
  /\ LET after == importFormats(formatStore, formats, mergeStrategy, Now)
     IN /\ after # formatStore => clock < MaxClock
        /\ formatStore' = after
        /\ clock' = IF after # formatStore THEN Now ELSE clock
  /\ result' = [kind |-> "void"]
  /\ lastOp' = [op |-> "importFormats", formats |-> formats, mergeStrategy |-> mergeStrategy]
  /\ run' = NoRun

-----------------------------------------------------------------------------
Init ==
  /\ formatStore = initializeDefaultFormats(<<>>, 0)
  /\ clock = 0
  /\ lastOp = [op |-> "initializeDefaultFormats"]
  /\ result = [kind |-> "void"]
  /\ run = NoRun

Next ==
  \/ \E post \in Posts, analysis \in Analyses : LearnFromPost(post, analysis)
  \/ \E platform \in Platform \cup {NoPlatform} : GetStoredFormats(platform)
  \/ \E id \in RequestIds : GetFormatById(id)
  \/ \E topic \in Topics, platform \in Platform, options \in MatchOptions :
       FindBestMatch(topic, platform, options)
  \/ \E id \in RequestIds, updates \in LibUpdates : UpdateFormat(id, updates)
  \/ \E id \in RequestIds : DeleteFormat(id)
  \/ ClearFormats
  \/ \E id \in RequestIds, body \in PutBodies : PUT(id, body)

Spec == Init /\ [][Next]_vars

(* The store with every route of /api/formats/[id] that writes to it *)
NextApi ==
  \/ Next
  \/ \E id \in RequestIds, body \in PatchBodies : PATCH(id, body)

SpecApi == Init /\ [][NextApi]_vars

(* The store with its backup operations *)
NextBackup ==
  \/ \E post \in Posts, analysis \in Analyses : LearnFromPost(post, analysis)
  \/ \E topic \in Topics, platform \in Platform : FindBestMatch(topic, platform, NoOptions)
  \/ \E id \in RequestIds, body \in PutBodies : PUT(id, body)
  \/ \E id \in RequestIds : DeleteFormat(id)
  \/ ClearFormats
  \/ ExportFormats
  \/ \E formats \in Imports(formatStore), mergeStrategy \in MergeStrategy :
       ImportFormats(formats, mergeStrategy)

SpecBackup == Init /\ [][NextBackup]_vars

-----------------------------------------------------------------------------
(* Properties *)

learnedId(op) == generateFormatId(op.analysis.formatPattern, op.post.platform)

platformIndexes(store, platform) == {i \in 1..Len(store) : store[i].platform = platform}

LearnCreates(op, before, after, res) ==
  (op.op = "learnFromPost" /\ ~storeHas(before, learnedId(op)))
  => LET id == learnedId(op)
         new == storeGet(after, id)
     IN /\ storeHas(after, id)
        /\ storeIds(after) = storeIds(before) \cup {id}
        /\ new.effectivenessScore[1] = op.analysis.viralityScore * new.effectivenessScore[2]
        /\ new.usageCount = 1
        /\ res = [kind |-> "format", value |-> new]

(* C1: a learnFromPost call that finds no record under the id derived from  *)
(* the post's platform and the analysis's hook/body/CTA stores a new record *)
(* under that id, with effectivenessScore = the analysis's viralityScore    *)
(* and usageCount = 1, and returns that record.                             *)
C1_LearnCreatesRecord ==
  [][LearnCreates(lastOp', formatStore, formatStore', result')]_vars

C1_Witness ==
  /\ lastOp.op = "learnFromPost"
  /\ result.value.usageCount = 1
  /\ result.value.createdAt = clock
  /\ result.value.effectivenessScore = <<40, 1>>

LearnUpdates(op, before, after, res) ==
  (op.op = "learnFromPost" /\ storeHas(before, learnedId(op)))
  => LET id == learnedId(op)
         s == storeGet(before, id).effectivenessScore
         n == storeGet(before, id).usageCount
         v == op.analysis.viralityScore
         new == storeGet(after, id)
     IN /\ new.usageCount = n + 1
        /\ n <= 2 => 10 * new.effectivenessScore[1] * s[2]
                       = new.effectivenessScore[2] * (7 * s[1] + 3 * v * s[2])
        /\ n >= 3 => (n + 1) * new.effectivenessScore[1] * s[2]
                       = new.effectivenessScore[2] * (n * s[1] + v * s[2])
        /\ (s = <<40, 1>> /\ n = 1 /\ v = 80)
             => new.effectivenessScore = <<52, 1>> /\ new.usageCount = 2
        /\ res = [kind |-> "format", value |-> new]

(* C2: a learnFromPost call that hits a record with score s and usageCount n *)
(* leaves score s*(1-w) + v*w with w = min(0.3, 1/(n+1)) (so w = 3/10 for    *)
(* n <= 2 and w = 1/(n+1) for n >= 3) and usageCount n+1; learning 40 and    *)
(* then 80 for one platform and triad from an absent record leaves score 52  *)
(* and usageCount 2.                                                         *)
C2_LearnUpdatesByEMA ==
  [][LearnUpdates(lastOp', formatStore, formatStore', result')]_vars

C2_Witness ==
  /\ lastOp.op = "learnFromPost"
  /\ result.value.usageCount = 4
  /\ result.value.effectivenessScore = <<50, 1>>

(* C3: n >= 1 learnFromPost calls for one platform and one hook/body/CTA     *)
(* triad, with no delete, update or clear in between, starting from a store  *)
(* with no record for that triad, leave exactly one new record for it, with  *)
(* usageCount = n.                                                           *)
C3_LearnRunCollapses ==
  (run.active /\ run.fresh)
  => LET mine == formatsFor(formatStore, run.platform, run.formatPattern)
     IN /\ Cardinality(mine) = 1
        /\ \A i \in mine : /\ formatStore[i].usageCount = run.n
                           /\ formatStore[i].id \notin run.baseIds

(* C4: at most one stored format for each combination of platform, hookType, *)
(* bodyType and ctaType.                                                     *)
C4_OneFormatPerCombination ==
  \A i, j \in 1..Len(formatStore) :
    (/\ formatStore[i].platform = formatStore[j].platform
     /\ formatPatternOf(formatStore[i]) = formatPatternOf(formatStore[j]))
    => i = j

(* C5: every format is stored under the slug of its own platform, hookType,  *)
(* bodyType and ctaType.                                                     *)
C5_IdIsSlugOfRecord ==
  \A i \in 1..Len(formatStore) :
    chars(formatStore[i].id)
      = formatIdChars(formatPatternOf(formatStore[i]), formatStore[i].platform)

MatchAgain(first, firstResult, second, secondResult) ==
  (/\ first.op = "findBestMatch"
   /\ second.op = "findBestMatch"
   /\ DOMAIN first.options = {}
   /\ DOMAIN second.options = {}
   /\ second.topic = first.topic
   /\ second.platform = first.platform)
  => /\ secondResult.value.formatId = firstResult.value.formatId
     /\ secondResult.value.matchScore = firstResult.value.matchScore

(* C6: two consecutive findBestMatch(topic, platform, {}) calls with the     *)
(* same topic and platform return the same formatId and the same matchScore, *)
(* also when the first call finds no format of the platform.                 *)
C6_MatchTwiceSameAnswer ==
  [][MatchAgain(lastOp, result, lastOp', result')]_vars

(* a call with {} that scored the default format persisted by an earlier call *)
C6_Witness ==
  /\ lastOp.op = "findBestMatch"
  /\ DOMAIN lastOp.options = {}
  /\ result.value.formatId = "default-twitter"
  /\ result.value.matchingElements = <<<<"Topic match: ", lastOp.topic>>>>
  /\ result.value.matchScore = <<30, 1>>

MatchOnEmptyPlatform(op, before, after, res) ==
  (op.op = "findBestMatch" /\ platformIndexes(before, op.platform) = {})
  => /\ res.value.matchScore = <<30, 1>>
     /\ Len(res.value.suggestedModifications) > 0
     /\ ~storeHas(before, res.value.formatId)
     /\ \E i \in 1..Len(after) :
          /\ after[i].id = res.value.formatId
          /\ after[i].platform = op.platform
          /\ after[i].hookType = "question"
          /\ after[i].bodyType = "insight_sharing"
          /\ after[i].ctaType = "question_to_audience"

(* C7: findBestMatch on a store with no format of the requested platform     *)
(* persists a QUESTION / INSIGHT_SHARING / QUESTION_TO_AUDIENCE format of    *)
(* that platform and returns its id, matchScore 30 and a non-empty           *)
(* suggestedModifications list.                                              *)
C7_EmptyPlatformGetsDefault ==
  [][MatchOnEmptyPlatform(lastOp', formatStore, formatStore', result')]_vars

C7_Witness ==
  /\ lastOp.op = "findBestMatch"
  /\ result.value.matchingElements = <<<<"Default fallback format">>>>
  /\ storeHas(formatStore, "default-twitter")
  /\ clock = storeGet(formatStore, "default-twitter").createdAt

MatchOnStoredFormats(op, before, after, res) ==
  (op.op = "findBestMatch" /\ platformIndexes(before, op.platform) # {})
  => LET mine == platformIndexes(before, op.platform)
         scores == [i \in mine |-> calculateMatchScore(before[i], op.topic, op.options).score]
     IN /\ \E i \in mine : before[i].id = res.value.formatId /\ scores[i] = res.value.matchScore
        /\ \A j \in mine : RLe(scores[j], res.value.matchScore)
        /\ after = before

(* C8: with at least one format of the requested platform stored,            *)
(* findBestMatch returns a format of that platform whose match score is the  *)
(* maximum over the stored formats of that platform, and returns that score. *)
C8_BestMatchIsMaximal ==
  [][MatchOnStoredFormats(lastOp', formatStore, formatStore', result')]_vars

(* the second of two linkedin formats wins *)
C8_Witness ==
  /\ lastOp.op = "findBestMatch"
  /\ lastOp.platform = "linkedin"
  /\ result.value.formatId = "linkedin-story-lesson"
  /\ Cardinality(platformIndexes(formatStore, "linkedin")) >= 2

(* C9: getStoredFormats returns its result sorted by effectivenessScore,     *)
(* descending, with and without a platform; with a platform the result is    *)
(* exactly the stored formats of that platform.                              *)
C9_ListSortedDescending ==
  lastOp.op = "getStoredFormats"
  => /\ \A i, j \in 1..Len(result.value) :
          i < j => ~RLt(result.value[i].effectivenessScore, result.value[j].effectivenessScore)
     /\ lastOp.platform # NoPlatform
          => Range(result.value)
               = {formatStore[i] : i \in platformIndexes(formatStore, lastOp.platform)}

UnknownId(op, before, after, res) ==
  (op.op \in {"updateFormat", "deleteFormat", "getFormatById"} /\ ~storeHas(before, op.id))
  => /\ after = before
     /\ op.op = "updateFormat" => res = [kind |-> "null"]
     /\ op.op = "deleteFormat" => res = [kind |-> "boolean", value |-> FALSE]
     /\ op.op = "getFormatById" => res = [kind |-> "undefined"]

(* C10: updateFormat, deleteFormat and getFormatById on an id that is not in *)
(* the store return null, false and undefined and leave the store as it was. *)
C10_UnknownIdIsNotFound ==
  [][UnknownId(lastOp', formatStore, formatStore', result')]_vars

C10_Witness ==
  /\ lastOp.op = "deleteFormat"
  /\ lastOp.id = "no-such-format"
  /\ result = [kind |-> "boolean", value |-> FALSE]
  /\ clock > 0


-----------------------------------------------------------------------------
(* Regular expressions, as the analyzer uses them.  A character is a     *)
(* one-character string; a character outside ASCII is named by its code  *)
(* point ("U+2022").  A pattern is a tree; reMatch gives the positions   *)
(* where a match that starts after position i can end, in the order in   *)
(* which the backtracking matcher of RegExp tries them, so that the      *)
(* first one is the end of match[0].                                     *)

lit(cs) == [t |-> "lit", cs |-> cs]

cls(set, negated) == [t |-> "cls", set |-> set, negated |-> negated]

seq(rs) == [t |-> "seq", rs |-> rs]

alt(rs) == [t |-> "alt", rs |-> rs]

(* the greedy quantifier r{min,max}; max < 0 stands for no upper limit *)
rep(r, min, max) == [t |-> "rep", r |-> r, min |-> min, max |-> max]

bol == [t |-> "bol"]

mbol == [t |-> "mbol"]

eol == [t |-> "eol"]

wb == [t |-> "wb"]

(* \d, \w, \s and the line terminators that . excludes *)
Digit == Range(Digits)

WordChar == Range(UpperLetters) \cup Range(LowerLetters) \cup Digit \cup {"_"}

SpaceChar == {" ", "\n", "\t", "\r", "\f"}

LineTerminator == {"\n", "\r"}

(* the code points of the model's alphabet inside the ranges of the emoji patterns *)
Pictographs == {"U+1F680", "U+1F9F5"}

MiscSymbols == {"U+2600"}

Dingbats == {"U+2713"}

(* code points above U+FFFF take two code units of a JavaScript string *)
Astral == Pictographs

(* String.prototype.length *)
length(s) == Len(s) + Cardinality({i \in 1..Len(s) : s[i] \in Astral})

isWordAt(s, k) == k \in 1..Len(s) /\ s[k] \in WordChar

(* how many characters of the class follow position i, max at most (max < 0: no limit) *)
classRun(set, negated, s, i, max) ==
  CHOOSE n \in 0..(Len(s) - i) :
    /\ max < 0 \/ n <= max
    /\ \A j \in 1..n : (s[i + j] \in set) # negated
    /\ n = Len(s) - i \/ n = max \/ ((s[i + n + 1] \in set) = negated)

(* the element of a set of one element: the({f(x) : x \in {e}}) is f(e), *)
(* with e computed once, before f                                        *)
the(S) == CHOOSE x \in S : TRUE

(* a function on 1..n as the sequence of its values *)
array(f) == SubSeq(f, 1, Len(f))

RECURSIVE reMatch(_, _, _), endsAfter(_, _, _, _, _), seqEnds(_, _, _, _, _), altEnds(_, _, _, _, _),
          repEnds(_, _, _, _), repEach(_, _, _, _, _, _)

reMatch(re, s, i) ==
  CASE re.t = "lit" ->
         IF i + Len(re.cs) <= Len(s) /\ SubSeq(s, i + 1, i + Len(re.cs)) = re.cs
         THEN <<i + Len(re.cs)>> ELSE <<>>
    [] re.t = "cls" ->
         IF i < Len(s) /\ ((s[i + 1] \in re.set) # re.negated) THEN <<i + 1>> ELSE <<>>
    [] re.t = "seq" -> seqEnds(re.rs, 1, Len(re.rs), s, <<i>>)
    [] re.t = "alt" -> altEnds(re.rs, 1, Len(re.rs), s, i)
    [] re.t = "rep" -> repEnds(re, s, i, 0)
    [] re.t = "bol" -> IF i = 0 THEN <<i>> ELSE <<>>
    [] re.t = "mbol" -> IF i = 0 \/ s[i] \in LineTerminator THEN <<i>> ELSE <<>>
    [] re.t = "eol" -> IF i = Len(s) THEN <<i>> ELSE <<>>
    [] re.t = "wb" -> IF isWordAt(s, i) # isWordAt(s, i + 1) THEN <<i>> ELSE <<>>

(* the ends of the matches of r that start at the positions from[lo..hi], in order *)
endsAfter(r, s, from, lo, hi) ==
  IF lo > hi THEN <<>>
  ELSE IF lo = hi THEN reMatch(r, s, from[lo])
  ELSE endsAfter(r, s, from, lo, (lo + hi) \div 2) \o endsAfter(r, s, from, (lo + hi) \div 2 + 1, hi)

(* the elements lo..hi of a sequence, matched one after the other from *)
(* each of the positions from: the ends in the order of the tries      *)
seqEnds(rs, lo, hi, s, from) ==
  IF lo > hi THEN from
  ELSE IF lo = hi THEN endsAfter(rs[lo], s, from, 1, Len(from))
  ELSE the({seqEnds(rs, (lo + hi) \div 2 + 1, hi, s, middle) :
              middle \in {seqEnds(rs, lo, (lo + hi) \div 2, s, from)}})

(* the alternatives lo..hi, in order *)
altEnds(rs, lo, hi, s, i) ==
  IF lo > hi THEN <<>>
  ELSE IF lo = hi THEN reMatch(rs[lo], s, i)
  ELSE altEnds(rs, lo, (lo + hi) \div 2, s, i) \o altEnds(rs, (lo + hi) \div 2 + 1, hi, s, i)

(* greedy: one more repetition first, then stopping here; a repeated *)
(* class ends after its longest run first, then after each shorter   *)
repEnds(re, s, i, done) ==
  IF re.r.t = "cls"
  THEN the({array([k \in 1..(longest - re.min + 1) |-> i + longest - k + 1]) :
              longest \in {classRun(re.r.set, re.r.negated, s, i, re.max)}})
  ELSE (IF re.max < 0 \/ done < re.max
        THEN the({repEach(re, s, SelectSeq(ends, LAMBDA e : e # i), 1, Len(SelectSeq(ends, LAMBDA e : e # i)), done) :
                    ends \in {reMatch(re.r, s, i)}})
        ELSE <<>>)
       \o (IF done >= re.min THEN <<i>> ELSE <<>>)

(* the repetitions that go on from the ends lo..hi of one more repetition *)
repEach(re, s, ends, lo, hi, done) ==
  IF lo > hi THEN <<>>
  ELSE IF lo = hi THEN repEnds(re, s, ends[lo], done + 1)
  ELSE repEach(re, s, ends, lo, (lo + hi) \div 2, done) \o repEach(re, s, ends, (lo + hi) \div 2 + 1, hi, done)

null == [kind |-> "null"]

(* for every position 0..Len(str), the ends of the matches that start there *)
endsAt(str, re) == array([k \in 1..(Len(str) + 1) |-> reMatch(re, str, k - 1)])

(* RegExp.prototype.exec from position 0: the leftmost match *)
execAt(str, ends) ==
  IF \A k \in 1..Len(ends) : ends[k] = <<>> THEN null
  ELSE the({[kind |-> "match", index |-> k - 1, text |-> SubSeq(str, k, Head(ends[k]))] :
              k \in {CHOOSE k \in 1..Len(ends) : ends[k] # <<>> /\ \A j \in 1..(k - 1) : ends[j] = <<>>}})

(* str.match(pattern) without the g flag; with the i flag the patterns,  *)
(* all written in lower case, are matched against the lower-cased text   *)
match(str, pattern) ==
  the({execAt(str, ends) :
         ends \in {endsAt(IF pattern.ignoreCase THEN toLowerCase(str) ELSE str, pattern.re)}})

(* pattern.test(str) *)
test(pattern, str) == match(str, pattern) # null

(* where the search goes on after the matches found so far *)
lastIndex(found, from) ==
  IF found # <<>> /\ found[Len(found)].index + Len(found[Len(found)].text) > from
  THEN found[Len(found)].index + Len(found[Len(found)].text)
  ELSE from

(* the matches of a global search that start at the positions lo..hi, *)
(* the search being at lo: each search starts where the previous      *)
(* match ended, and the leftmost match from there is the next         *)
RECURSIVE matchesIn(_, _, _, _)
matchesIn(str, ends, lo, hi) ==
  IF lo > hi THEN <<>>
  ELSE IF lo = hi
       THEN IF ends[lo + 1] # <<>>
            THEN <<[kind |-> "match", index |-> lo, text |-> SubSeq(str, lo + 1, Head(ends[lo + 1]))]>>
            ELSE <<>>
       ELSE the({found \o matchesIn(str, ends, lastIndex(found, (lo + hi) \div 2 + 1), hi) :
                   found \in {matchesIn(str, ends, lo, (lo + hi) \div 2)}})

execAll(str, pattern) ==
  the({matchesIn(str, ends, 0, Len(str)) :
         ends \in {endsAt(IF pattern.ignoreCase THEN toLowerCase(str) ELSE str, pattern.re)}})

(* str.match(pattern) with the g flag: the matched texts from left to right *)
matchAll(str, pattern) ==
  the({array([k \in 1..Len(found) |-> found[k].text]) : found \in {execAll(str, pattern)}})

-----------------------------------------------------------------------------
(* The rule tables of the analyzer *)

(* the hook rules, by hook type in the order of the table *)
HOOK_PATTERNS ==
  << [type |-> HookType.QUESTION,
      patterns |-> << [re |-> seq(<<bol, alt(<<lit(<<"w", "h", "a", "t">>), lit(<<"w", "h", "y">>),
          lit(<<"h", "o", "w">>), lit(<<"w", "h", "e", "n">>), lit(<<"w", "h", "e", "r", "e">>),
          lit(<<"w", "h", "o">>), lit(<<"w", "h", "i", "c", "h">>),
          lit(<<"d", "o", " ", "y", "o", "u">>), lit(<<"d", "i", "d", " ", "y", "o", "u">>),
          lit(<<"h", "a", "v", "e", " ", "y", "o", "u">>),
          lit(<<"a", "r", "e", " ", "y", "o", "u">>), lit(<<"i", "s", " ", "y", "o", "u", "r">>),
          lit(<<"w", "o", "u", "l", "d", " ", "y", "o", "u">>),
          lit(<<"c", "o", "u", "l", "d", " ", "y", "o", "u">>)>>)>>), ignoreCase |-> TRUE],
                     [re |-> seq(<<lit(<<"?">>), eol>>), ignoreCase |-> FALSE],
                     [re |-> seq(<<bol,
                         alt(<<lit(<<"e", "v", "e", "r", " ", "w", "o", "n", "d", "e", "r", "e", "d">>),
                         lit(<<"h", "a", "v", "e", " ", "y", "o", "u", " ", "e", "v", "e", "r">>),
                         lit(<<"d", "i", "d", " ", "y", "o", "u", " ", "k", "n", "o", "w">>)>>)>>),
                         ignoreCase |-> TRUE] >>],
    [type |-> HookType.BOLD_STATEMENT,
      patterns |-> << [re |-> seq(<<bol, alt(<<lit(<<"t", "h", "i", "s", " ", "i", "s">>),
          lit(<<"h", "e", "r", "e", "'", "s", " ", "t", "h", "e", " ", "t", "r", "u", "t", "h">>),
          lit(<<"l", "e", "t", " ", "m", "e", " ", "b", "e", " ", "c", "l", "e", "a", "r">>),
          lit(<<"i", "'", "l", "l", " ", "s", "a", "y", " ", "i", "t">>),
          lit(<<"t", "h", "e", " ", "t", "r", "u", "t", "h", " ", "i", "s">>),
          lit(<<"h", "e", "r", "e", "'", "s", " ", "w", "h", "a", "t", " ", "n", "o", "b", "o", "d", "y", " ", "t", "e", "l", "l", "s", " ", "y", "o", "u">>)>>)>>),
          ignoreCase |-> TRUE],
                     [re |-> seq(<<bol, alt(<<lit(<<"s", "t", "o", "p">>),
                         lit(<<"d", "o", "n", "'", "t">>), lit(<<"n", "e", "v", "e", "r">>),
                         lit(<<"a", "l", "w", "a", "y", "s">>),
                         lit(<<"e", "v", "e", "r", "y", "o", "n", "e">>),
                         lit(<<"n", "o", "b", "o", "d", "y">>),
                         lit(<<"n", "o", "t", "h", "i", "n", "g">>),
                         lit(<<"e", "v", "e", "r", "y", "t", "h", "i", "n", "g">>)>>)>>),
                         ignoreCase |-> TRUE],
                     [re |-> seq(<<wb,
                         alt(<<lit(<<"u", "n", "p", "o", "p", "u", "l", "a", "r", " ", "o", "p", "i", "n", "i", "o", "n">>),
                         lit(<<"h", "o", "t", " ", "t", "a", "k", "e">>),
                         lit(<<"c", "o", "n", "t", "r", "o", "v", "e", "r", "s", "i", "a", "l", " ", "o", "p", "i", "n", "i", "o", "n">>)>>),
                         wb>>), ignoreCase |-> TRUE] >>],
    [type |-> HookType.STORY,
      patterns |-> << [re |-> seq(<<bol, alt(<<lit(<<"s", "o">>), lit(<<"i", " ", "w", "a", "s">>),
          lit(<<"l", "a", "s", "t", " ", "w", "e", "e", "k">>),
          lit(<<"y", "e", "s", "t", "e", "r", "d", "a", "y">>),
          lit(<<"a", " ", "f", "e", "w", " ", "y", "e", "a", "r", "s", " ", "a", "g", "o">>),
          lit(<<"w", "h", "e", "n", " ", "i", " ", "s", "t", "a", "r", "t", "e", "d">>),
          lit(<<"b", "a", "c", "k", " ", "i", "n">>),
          lit(<<"m", "y", " ", "j", "o", "u", "r", "n", "e", "y">>)>>)>>), ignoreCase |-> TRUE],
                     [re |-> seq(<<bol,
                         alt(<<lit(<<"s", "t", "o", "r", "y", " ", "t", "i", "m", "e">>),
                         lit(<<"l", "e", "t", " ", "m", "e", " ", "t", "e", "l", "l", " ", "y", "o", "u">>),
                         lit(<<"h", "e", "r", "e", "'", "s", " ", "a", " ", "s", "t", "o", "r", "y">>)>>)>>),
                         ignoreCase |-> TRUE],
                     [re |-> seq(<<wb, alt(<<lit(<<"m", "y", " ", "s", "t", "o", "r", "y">>),
                         lit(<<"t", "h", "i", "s", " ", "c", "h", "a", "n", "g", "e", "d", " ", "e", "v", "e", "r", "y", "t", "h", "i", "n", "g">>),
                         lit(<<"t", "u", "r", "n", "i", "n", "g", " ", "p", "o", "i", "n", "t">>)>>),
                         wb>>), ignoreCase |-> TRUE] >>],
    [type |-> HookType.LIST,
      patterns |-> << [re |-> seq(<<bol, seq(<<rep(cls(Digit, FALSE), 1, -1),
          rep(cls(SpaceChar, FALSE), 1, -1), alt(<<lit(<<"w", "a", "y", "s">>),
          lit(<<"t", "h", "i", "n", "g", "s">>), lit(<<"r", "e", "a", "s", "o", "n", "s">>),
          lit(<<"t", "i", "p", "s">>), lit(<<"s", "e", "c", "r", "e", "t", "s">>),
          lit(<<"m", "i", "s", "t", "a", "k", "e", "s">>),
          lit(<<"l", "e", "s", "s", "o", "n", "s">>), lit(<<"h", "a", "b", "i", "t", "s">>),
          lit(<<"b", "o", "o", "k", "s">>), lit(<<"t", "o", "o", "l", "s">>),
          lit(<<"a", "p", "p", "s">>)>>)>>)>>), ignoreCase |-> TRUE],
                     [re |-> seq(<<bol, alt(<<lit(<<"h", "e", "r", "e", " ", "a", "r", "e">>),
                         seq(<<lit(<<"h", "e", "r", "e", "'", "s", " ">>),
                         rep(cls(Digit, FALSE), 1, -1)>>), seq(<<lit(<<"t", "o", "p", " ">>),
                         rep(cls(Digit, FALSE), 1, -1)>>), seq(<<lit(<<"b", "e", "s", "t", " ">>),
                         rep(cls(Digit, FALSE), 1, -1)>>), seq(<<rep(cls(Digit, FALSE), 1, -1),
                         lit(<<" ", "o", "f", " ", "t", "h", "e">>)>>)>>)>>), ignoreCase |-> TRUE],
                     [re |-> seq(<<wb,
                         alt(<<lit(<<"s", "t", "e", "p", " ", "b", "y", " ", "s", "t", "e", "p">>),
                         lit(<<"c", "h", "e", "c", "k", "l", "i", "s", "t">>)>>), wb>>),
                         ignoreCase |-> TRUE] >>],
    [type |-> HookType.CONTROVERSIAL_TAKE,
      patterns |-> << [re |-> seq(<<bol,
          alt(<<lit(<<"u", "n", "p", "o", "p", "u", "l", "a", "r", " ", "o", "p", "i", "n", "i", "o", "n">>),
          lit(<<"h", "o", "t", " ", "t", "a", "k", "e">>),
          lit(<<"c", "o", "n", "t", "r", "o", "v", "e", "r", "s", "i", "a", "l">>),
          lit(<<"i", "'", "l", "l", " ", "p", "r", "o", "b", "a", "b", "l", "y", " ", "g", "e", "t", " ", "h", "a", "t", "e">>),
          lit(<<"t", "h", "i", "s", " ", "m", "i", "g", "h", "t", " ", "u", "p", "s", "e", "t">>)>>)>>),
          ignoreCase |-> TRUE],
                     [re |-> seq(<<wb,
                         alt(<<lit(<<"i", "s", " ", "o", "v", "e", "r", "r", "a", "t", "e", "d">>),
                         lit(<<"i", "s", " ", "u", "n", "d", "e", "r", "r", "a", "t", "e", "d">>),
                         lit(<<"e", "v", "e", "r", "y", "o", "n", "e", " ", "i", "s", " ", "w", "r", "o", "n", "g">>),
                         lit(<<"t", "h", "e", " ", "i", "n", "d", "u", "s", "t", "r", "y", " ", "i", "s">>),
                         lit(<<"n", "o", "b", "o", "d", "y", " ", "t", "a", "l", "k", "s", " ", "a", "b", "o", "u", "t">>)>>),
                         wb>>), ignoreCase |-> TRUE],
                     [re |-> seq(<<wb, alt(<<lit(<<"g", "a", "t", "e", "k", "e", "e", "p">>),
                         lit(<<"r", "e", "d", " ", "f", "l", "a", "g">>),
                         lit(<<"t", "o", "x", "i", "c">>),
                         lit(<<"p", "r", "o", "b", "l", "e", "m", "a", "t", "i", "c">>)>>), wb>>),
                         ignoreCase |-> TRUE] >>],
    [type |-> HookType.STATISTIC,
      patterns |-> << [re |-> seq(<<bol, alt(<<seq(<<rep(cls(Digit, FALSE), 1, -1),
          lit(<<"%">>)>>), lit(<<"a", "c", "c", "o", "r", "d", "i", "n", "g", " ", "t", "o">>),
          lit(<<"s", "t", "u", "d", "i", "e", "s", " ", "s", "h", "o", "w">>),
          lit(<<"r", "e", "s", "e", "a", "r", "c", "h", " ", "s", "h", "o", "w", "s">>),
          lit(<<"d", "a", "t", "a", " ", "s", "h", "o", "w", "s">>),
          lit(<<"s", "t", "a", "t", "i", "s", "t", "i", "c", "s", " ", "s", "h", "o", "w">>)>>)>>),
          ignoreCase |-> TRUE],
                     [re |-> seq(<<wb, alt(<<seq(<<lit(<<"i", "n", " ">>),
                         rep(cls(Digit, FALSE), 1, -1), lit(<<" ", "y", "e", "a", "r", "s">>)>>),
                         seq(<<lit(<<"b", "y", " ">>), rep(cls(Digit, FALSE), 1, -1)>>),
                         seq(<<lit(<<"o", "n", "l", "y", " ">>), rep(cls(Digit, FALSE), 1, -1),
                         lit(<<"%">>)>>),
                         seq(<<lit(<<"m", "o", "r", "e", " ", "t", "h", "a", "n", " ">>),
                         rep(cls(Digit, FALSE), 1, -1)>>)>>)>>), ignoreCase |-> TRUE],
                     [re |-> seq(<<wb, alt(<<lit(<<"m", "i", "l", "l", "i", "o", "n">>),
                         lit(<<"b", "i", "l", "l", "i", "o", "n">>),
                         lit(<<"t", "r", "i", "l", "l", "i", "o", "n">>)>>), wb>>),
                         ignoreCase |-> TRUE] >>],
    [type |-> HookType.QUOTE,
      patterns |-> << [re |-> alt(<<seq(<<bol, cls({"\"", "'"}, FALSE)>>), seq(<<bol,
          rep(cls(WordChar, FALSE), 1, -1), rep(cls(SpaceChar, FALSE), 1, -1),
          lit(<<"o", "n", "c", "e">>), rep(cls(SpaceChar, FALSE), 1, -1),
          lit(<<"s", "a", "i", "d">>)>>), seq(<<bol, alt(<<lit(<<"a", "s", " ">>), lit(<<"\"">>),
          lit(<<"U+201C">>)>>)>>)>>), ignoreCase |-> TRUE],
                     [re |-> seq(<<wb,
                         alt(<<lit(<<"s", "a", "i", "d", " ", "i", "t", " ", "b", "e", "s", "t">>),
                         lit(<<"f", "a", "m", "o", "u", "s", " ", "w", "o", "r", "d", "s">>),
                         lit(<<"w", "i", "s", "d", "o", "m", " ", "f", "r", "o", "m">>)>>), wb>>),
                         ignoreCase |-> TRUE] >>],
    [type |-> HookType.HOW_TO,
      patterns |-> << [re |-> seq(<<bol, alt(<<lit(<<"h", "o", "w", " ", "t", "o">>),
          lit(<<"h", "o", "w", " ", "i">>),
          lit(<<"h", "o", "w", " ", "y", "o", "u", " ", "c", "a", "n">>),
          lit(<<"h", "o", "w", " ", "w", "e">>),
          lit(<<"t", "h", "e", " ", "c", "o", "m", "p", "l", "e", "t", "e", " ", "g", "u", "i", "d", "e">>),
          lit(<<"u", "l", "t", "i", "m", "a", "t", "e", " ", "g", "u", "i", "d", "e">>),
          lit(<<"s", "t", "e", "p", "-", "b", "y", "-", "s", "t", "e", "p">>)>>)>>),
          ignoreCase |-> TRUE],
                     [re |-> seq(<<wb, alt(<<lit(<<"l", "e", "a", "r", "n", " ", "t", "o">>),
                         lit(<<"m", "a", "s", "t", "e", "r", "i", "n", "g">>),
                         lit(<<"g", "u", "i", "d", "e", " ", "t", "o">>),
                         lit(<<"r", "o", "a", "d", "m", "a", "p", " ", "t", "o">>)>>), wb>>),
                         ignoreCase |-> TRUE] >>],
    [type |-> HookType.NONE,
      patterns |-> <<>>] >>

(* the body rules and indicator words, by body type *)
BODY_PATTERNS ==
  << [type |-> BodyType.PROBLEM_SOLUTION,
      patterns |-> << [re |-> seq(<<wb, alt(<<lit(<<"p", "r", "o", "b", "l", "e", "m">>),
          lit(<<"i", "s", "s", "u", "e">>), lit(<<"c", "h", "a", "l", "l", "e", "n", "g", "e">>),
          lit(<<"s", "t", "r", "u", "g", "g", "l", "e">>),
          lit(<<"p", "a", "i", "n", " ", "p", "o", "i", "n", "t">>)>>), wb,
          rep(cls({}, TRUE), 0, -1), wb, alt(<<lit(<<"s", "o", "l", "u", "t", "i", "o", "n">>),
          lit(<<"f", "i", "x">>), lit(<<"a", "n", "s", "w", "e", "r">>),
          lit(<<"r", "e", "s", "o", "l", "v", "e">>), lit(<<"s", "o", "l", "v", "e">>)>>), wb>>),
          ignoreCase |-> TRUE],
                     [re |-> seq(<<wb,
                         seq(<<lit(<<"h", "e", "r", "e", "'", "s", " ", "h", "o", "w", " ">>),
                         rep(alt(<<lit(<<"i", " ">>), lit(<<"w", "e", " ">>),
                         lit(<<"y", "o", "u", " ">>)>>), 0, 1),
                         alt(<<lit(<<"s", "o", "l", "v", "e", "d">>),
                         lit(<<"f", "i", "x", "e", "d">>),
                         lit(<<"o", "v", "e", "r", "c", "a", "m", "e">>)>>)>>)>>),
                         ignoreCase |-> TRUE],
                     [re |-> seq(<<wb, alt(<<lit(<<"t", "h", "e", " ", "f", "i", "x">>),
                         lit(<<"t", "h", "e", " ", "s", "o", "l", "u", "t", "i", "o", "n">>),
                         lit(<<"w", "h", "a", "t", " ", "w", "o", "r", "k", "e", "d">>)>>), wb>>),
                         ignoreCase |-> TRUE] >>,
      indicators |-> <<<<"p", "r", "o", "b", "l", "e", "m", "-", "s", "o", "l", "u", "t", "i", "o", "n">>, <<"c", "h", "a", "l", "l", "e", "n", "g", "e", "-", "o", "v", "e", "r", "c", "o", "m", "e">>, <<"s", "t", "r", "u", "g", "g", "l", "e", "-", "r", "e", "s", "o", "l", "u", "t", "i", "o", "n">>>>],
    [type |-> BodyType.STORY_DRIVEN,
      patterns |-> << [re |-> seq(<<bol, alt(<<lit(<<"s", "o">>), lit(<<"i", " ", "w", "a", "s">>),
          lit(<<"w", "h", "e", "n", " ", "i">>),
          lit(<<"m", "y", " ", "j", "o", "u", "r", "n", "e", "y">>),
          lit(<<"m", "y", " ", "s", "t", "o", "r", "y">>)>>)>>), ignoreCase |-> TRUE],
                     [re |-> seq(<<wb,
                         alt(<<lit(<<"t", "h", "e", "n", " ", "o", "n", "e", " ", "d", "a", "y">>),
                         lit(<<"t", "h", "a", "t", "'", "s", " ", "w", "h", "e", "n">>),
                         lit(<<"f", "a", "s", "t", " ", "f", "o", "r", "w", "a", "r", "d">>),
                         lit(<<"y", "e", "a", "r", "s", " ", "l", "a", "t", "e", "r">>)>>), wb>>),
                         ignoreCase |-> TRUE],
                     [re |-> seq(<<wb,
                         alt(<<lit(<<"t", "h", "e", " ", "t", "u", "r", "n", "i", "n", "g", " ", "p", "o", "i", "n", "t">>),
                         lit(<<"e", "v", "e", "r", "y", "t", "h", "i", "n", "g", " ", "c", "h", "a", "n", "g", "e", "d">>),
                         lit(<<"t", "h", "i", "s", " ", "m", "o", "m", "e", "n", "t">>)>>), wb>>),
                         ignoreCase |-> TRUE] >>,
      indicators |-> <<<<"n", "a", "r", "r", "a", "t", "i", "v", "e">>, <<"p", "e", "r", "s", "o", "n", "a", "l", "-", "e", "x", "p", "e", "r", "i", "e", "n", "c", "e">>, <<"c", "h", "r", "o", "n", "o", "l", "o", "g", "i", "c", "a", "l">>>>],
    [type |-> BodyType.LISTICLE,
      patterns |-> << [re |-> seq(<<mbol, alt(<<seq(<<rep(cls(Digit, FALSE), 1, -1),
          lit(<<".">>)>>), lit(<<"1", ".">>), lit(<<"U+00E2", "U+20AC", "U+00A2">>), lit(<<"-">>),
          lit(<<"U+00E2", "U+2020", "U+2019">>)>>)>>), ignoreCase |-> FALSE],
                     [re |-> seq(<<lit(<<"\n">>), rep(cls(Digit, FALSE), 1, -1), lit(<<".">>)>>),
                         ignoreCase |-> FALSE],
                     [re |-> seq(<<lit(<<"\n">>), alt(<<lit(<<"U+00E2", "U+20AC", "U+00A2">>),
                         lit(<<"-">>), lit(<<"U+00E2", "U+2020", "U+2019">>),
                         lit(<<"U+00E2", "U+0153", "U+201C">>),
                         lit(<<"U+00E2", "U+0153", "U+2014">>),
                         lit(<<"U+00E2", "U+2013", "U+00B8">>)>>)>>), ignoreCase |-> FALSE] >>,
      indicators |-> <<<<"n", "u", "m", "b", "e", "r", "e", "d", "-", "l", "i", "s", "t">>, <<"b", "u", "l", "l", "e", "t", "-", "p", "o", "i", "n", "t", "s">>, <<"e", "n", "u", "m", "e", "r", "a", "t", "e", "d", "-", "i", "t", "e", "m", "s">>>>],
    [type |-> BodyType.TUTORIAL,
      patterns |-> << [re |-> seq(<<wb, alt(<<seq(<<lit(<<"s", "t", "e", "p", " ">>),
          rep(cls(Digit, FALSE), 1, -1)>>), lit(<<"f", "i", "r", "s", "t">>),
          lit(<<"t", "h", "e", "n">>), lit(<<"n", "e", "x", "t">>),
          lit(<<"f", "i", "n", "a", "l", "l", "y">>), lit(<<"l", "a", "s", "t", "l", "y">>)>>),
          wb>>), ignoreCase |-> TRUE],
                     [re |-> seq(<<wb,
                         alt(<<lit(<<"h", "e", "r", "e", "'", "s", " ", "h", "o", "w">>),
                         lit(<<"f", "o", "l", "l", "o", "w", " ", "t", "h", "e", "s", "e">>),
                         lit(<<"d", "o", " ", "t", "h", "i", "s">>)>>), wb>>), ignoreCase |-> TRUE],
                     [re |-> seq(<<wb, alt(<<lit(<<"t", "u", "t", "o", "r", "i", "a", "l">>),
                         lit(<<"g", "u", "i", "d", "e">>),
                         lit(<<"w", "a", "l", "k", "t", "h", "r", "o", "u", "g", "h">>)>>), wb>>),
                         ignoreCase |-> TRUE] >>,
      indicators |-> <<<<"s", "t", "e", "p", "-", "b", "y", "-", "s", "t", "e", "p">>, <<"i", "n", "s", "t", "r", "u", "c", "t", "i", "o", "n", "a", "l">>, <<"h", "o", "w", "-", "t", "o">>>>],
    [type |-> BodyType.INSIGHT_SHARING,
      patterns |-> << [re |-> seq(<<wb, alt(<<lit(<<"i", " ", "l", "e", "a", "r", "n", "e", "d">>),
          lit(<<"i", " ", "r", "e", "a", "l", "i", "z", "e", "d">>),
          lit(<<"t", "h", "e", " ", "k", "e", "y", " ", "i", "n", "s", "i", "g", "h", "t">>),
          lit(<<"m", "y", " ", "b", "i", "g", "g", "e", "s", "t", " ", "t", "a", "k", "e", "a", "w", "a", "y">>)>>),
          wb>>), ignoreCase |-> TRUE],
                     [re |-> seq(<<wb,
                         alt(<<lit(<<"h", "e", "r", "e", "'", "s", " ", "w", "h", "a", "t">>),
                         lit(<<"i", " ", "d", "i", "s", "c", "o", "v", "e", "r", "e", "d">>),
                         lit(<<"w", "h", "a", "t", " ", "i", " ", "w", "i", "s", "h", " ", "i", " ", "k", "n", "e", "w">>)>>),
                         wb>>), ignoreCase |-> TRUE],
                     [re |-> seq(<<wb,
                         alt(<<lit(<<"t", "h", "e", " ", "s", "e", "c", "r", "e", "t">>),
                         lit(<<"t", "h", "e", " ", "t", "r", "u", "t", "h", " ", "a", "b", "o", "u", "t">>),
                         lit(<<"r", "e", "a", "l", "i", "t", "y", " ", "i", "s">>)>>), wb>>),
                         ignoreCase |-> TRUE] >>,
      indicators |-> <<<<"w", "i", "s", "d", "o", "m">>, <<"l", "e", "s", "s", "o", "n">>, <<"i", "n", "s", "i", "g", "h", "t">>, <<"r", "e", "a", "l", "i", "z", "a", "t", "i", "o", "n">>>>],
    [type |-> BodyType.COMPARISON,
      patterns |-> << [re |-> seq(<<wb, alt(<<seq(<<lit(<<"v", "s">>), rep(lit(<<".">>), 0, 1)>>),
          lit(<<"v", "e", "r", "s", "u", "s">>),
          lit(<<"c", "o", "m", "p", "a", "r", "e", "d", " ", "t", "o">>),
          lit(<<"i", "n", "s", "t", "e", "a", "d", " ", "o", "f">>),
          lit(<<"r", "a", "t", "h", "e", "r", " ", "t", "h", "a", "n">>)>>), wb>>),
          ignoreCase |-> TRUE],
                     [re |-> seq(<<wb,
                         alt(<<lit(<<"t", "h", "e", " ", "d", "i", "f", "f", "e", "r", "e", "n", "c", "e", " ", "b", "e", "t", "w", "e", "e", "n">>),
                         lit(<<"t", "h", "i", "s", " ", "v", "s", " ", "t", "h", "a", "t">>)>>),
                         wb>>), ignoreCase |-> TRUE],
                     [re |-> seq(<<wb, alt(<<lit(<<"w", "h", "i", "l", "e">>),
                         lit(<<"w", "h", "e", "r", "e", "a", "s">>),
                         lit(<<"o", "n", " ", "t", "h", "e", " ", "o", "t", "h", "e", "r", " ", "h", "a", "n", "d">>)>>),
                         wb>>), ignoreCase |-> TRUE] >>,
      indicators |-> <<<<"c", "o", "m", "p", "a", "r", "i", "s", "o", "n">>, <<"c", "o", "n", "t", "r", "a", "s", "t">>, <<"v", "e", "r", "s", "u", "s">>>>],
    [type |-> BodyType.MYTH_BUSTING,
      patterns |-> << [re |-> seq(<<wb, alt(<<lit(<<"m", "y", "t", "h">>),
          lit(<<"m", "i", "s", "c", "o", "n", "c", "e", "p", "t", "i", "o", "n">>),
          lit(<<"w", "r", "o", "n", "g", " ", "a", "b", "o", "u", "t">>),
          lit(<<"f", "a", "l", "s", "e">>), lit(<<"l", "i", "e">>),
          lit(<<"b", "e", "l", "i", "e", "v", "e">>)>>), wb>>), ignoreCase |-> TRUE],
                     [re |-> seq(<<wb,
                         alt(<<lit(<<"d", "o", "n", "'", "t", " ", "b", "e", "l", "i", "e", "v", "e">>),
                         lit(<<"s", "t", "o", "p", " ", "b", "e", "l", "i", "e", "v", "i", "n", "g">>),
                         lit(<<"t", "h", "e", " ", "t", "r", "u", "t", "h", " ", "a", "b", "o", "u", "t">>),
                         lit(<<"d", "e", "b", "u", "n", "k", "i", "n", "g">>)>>), wb>>),
                         ignoreCase |-> TRUE],
                     [re |-> seq(<<wb, alt(<<lit(<<"a", "c", "t", "u", "a", "l", "l", "y">>),
                         lit(<<"i", "n", " ", "r", "e", "a", "l", "i", "t", "y">>),
                         lit(<<"t", "h", "e", " ", "r", "e", "a", "l", "i", "t", "y", " ", "i", "s">>)>>),
                         wb>>), ignoreCase |-> TRUE] >>,
      indicators |-> <<<<"m", "y", "t", "h">>, <<"m", "i", "s", "c", "o", "n", "c", "e", "p", "t", "i", "o", "n">>, <<"d", "e", "b", "u", "n", "k", "i", "n", "g">>, <<"t", "r", "u", "t", "h", "-", "r", "e", "v", "e", "a", "l">>>>],
    [type |-> BodyType.LESSON_LEARNED,
      patterns |-> << [re |-> seq(<<wb, alt(<<lit(<<"l", "e", "s", "s", "o", "n">>),
          lit(<<"l", "e", "a", "r", "n", "e", "d">>),
          lit(<<"m", "i", "s", "t", "a", "k", "e", " ", "i", " ", "m", "a", "d", "e">>),
          lit(<<"w", "h", "a", "t", " ", "i", " ", "l", "e", "a", "r", "n", "e", "d">>),
          lit(<<"b", "i", "g", "g", "e", "s", "t", " ", "l", "e", "s", "s", "o", "n">>)>>), wb>>),
          ignoreCase |-> TRUE],
                     [re |-> seq(<<wb,
                         alt(<<lit(<<"i", "f", " ", "i", " ", "c", "o", "u", "l", "d", " ", "g", "o", " ", "b", "a", "c", "k">>),
                         lit(<<"i", " ", "w", "i", "s", "h", " ", "i", " ", "k", "n", "e", "w">>),
                         lit(<<"i", " ", "w", "o", "u", "l", "d", " ", "t", "e", "l", "l", " ", "m", "y", " ", "y", "o", "u", "n", "g", "e", "r">>)>>),
                         wb>>), ignoreCase |-> TRUE],
                     [re |-> seq(<<wb, alt(<<lit(<<"r", "e", "g", "r", "e", "t">>),
                         lit(<<"w", "i", "s", "h", " ", "i", " ", "h", "a", "d">>),
                         lit(<<"s", "h", "o", "u", "l", "d", " ", "h", "a", "v", "e">>)>>), wb>>),
                         ignoreCase |-> TRUE] >>,
      indicators |-> <<<<"l", "e", "s", "s", "o", "n">>, <<"m", "i", "s", "t", "a", "k", "e">>, <<"r", "e", "g", "r", "e", "t">>, <<"l", "e", "a", "r", "n", "i", "n", "g">>>>],
    [type |-> BodyType.THREAD,
      patterns |-> << [re |-> seq(<<wb, alt(<<lit(<<"t", "h", "r", "e", "a", "d">>),
          lit(<<"U+00F0", "U+0178", "U+00A7", "U+00B5">>),
          lit(<<"a", " ", "t", "h", "r", "e", "a", "d">>)>>), wb>>), ignoreCase |-> TRUE],
                     [re |-> seq(<<lit(<<"\n">>), rep(cls(Digit, FALSE), 1, -1), lit(<<"/">>),
                         rep(cls(Digit, FALSE), 1, -1)>>), ignoreCase |-> FALSE],
                     [re |-> seq(<<wb, alt(<<seq(<<lit(<<"p", "a", "r", "t", " ">>),
                         rep(cls(Digit, FALSE), 1, -1)>>),
                         lit(<<"c", "o", "n", "t", "i", "n", "u", "e", "d">>),
                         lit(<<"f", "o", "l", "l", "o", "w", " ", "f", "o", "r", " ", "m", "o", "r", "e">>)>>),
                         wb>>), ignoreCase |-> TRUE] >>,
      indicators |-> <<<<"t", "h", "r", "e", "a", "d">>, <<"s", "e", "r", "i", "e", "s">>, <<"m", "u", "l", "t", "i", "-", "p", "a", "r", "t">>>>],
    [type |-> BodyType.NARRATIVE,
      patterns |-> << [re |-> seq(<<wb, alt(<<lit(<<"o", "n", "c", "e", " ", "u", "p", "o", "n">>),
          lit(<<"p", "i", "c", "t", "u", "r", "e", " ", "t", "h", "i", "s">>),
          lit(<<"i", "m", "a", "g", "i", "n", "e">>),
          lit(<<"l", "e", "t", " ", "m", "e", " ", "p", "a", "i", "n", "t", " ", "a", " ", "p", "i", "c", "t", "u", "r", "e">>)>>),
          wb>>), ignoreCase |-> TRUE],
                     [re |-> seq(<<wb,
                         alt(<<lit(<<"t", "h", "e", " ", "s", "t", "o", "r", "y", " ", "o", "f">>),
                         lit(<<"t", "h", "i", "s", " ", "i", "s", " ", "t", "h", "e", " ", "s", "t", "o", "r", "y">>),
                         lit(<<"t", "a", "l", "e", " ", "o", "f">>)>>), wb>>), ignoreCase |-> TRUE],
                     [re |-> seq(<<wb,
                         alt(<<lit(<<"i", "t", " ", "a", "l", "l", " ", "s", "t", "a", "r", "t", "e", "d">>),
                         lit(<<"i", "n", " ", "t", "h", "e", " ", "b", "e", "g", "i", "n", "n", "i", "n", "g">>)>>),
                         wb>>), ignoreCase |-> TRUE] >>,
      indicators |-> <<<<"n", "a", "r", "r", "a", "t", "i", "v", "e">>, <<"s", "t", "o", "r", "y", "t", "e", "l", "l", "i", "n", "g">>, <<"s", "c", "e", "n", "a", "r", "i", "o">>>>] >>

(* the call-to-action rules, by type *)
CTA_PATTERNS ==
  << [type |-> CTAType.QUESTION_TO_AUDIENCE,
      patterns |-> << [re |-> seq(<<lit(<<"?">>), eol>>), ignoreCase |-> FALSE],
                     [re |-> seq(<<wb,
                         alt(<<lit(<<"w", "h", "a", "t", " ", "d", "o", " ", "y", "o", "u", " ", "t", "h", "i", "n", "k">>),
                         lit(<<"y", "o", "u", "r", " ", "t", "h", "o", "u", "g", "h", "t", "s">>),
                         lit(<<"a", "g", "r", "e", "e", " ", "o", "r", " ", "d", "i", "s", "a", "g", "r", "e", "e">>),
                         lit(<<"w", "h", "a", "t", "'", "s", " ", "y", "o", "u", "r">>),
                         lit(<<"h", "o", "w", " ", "d", "o", " ", "y", "o", "u">>),
                         lit(<<"s", "h", "a", "r", "e", " ", "y", "o", "u", "r">>)>>), wb,
                         rep(cls(LineTerminator, TRUE), 0, -1), lit(<<"?">>)>>),
                         ignoreCase |-> TRUE],
                     [re |-> seq(<<wb,
                         alt(<<lit(<<"l", "e", "t", " ", "m", "e", " ", "k", "n", "o", "w">>),
                         lit(<<"t", "e", "l", "l", " ", "m", "e">>),
                         lit(<<"c", "o", "m", "m", "e", "n", "t", " ", "b", "e", "l", "o", "w">>)>>),
                         wb, rep(cls(LineTerminator, TRUE), 0, -1), lit(<<"?">>)>>),
                         ignoreCase |-> TRUE] >>],
    [type |-> CTAType.LINK,
      patterns |-> << [re |-> seq(<<lit(<<"h", "t", "t", "p">>), rep(lit(<<"s">>), 0, 1),
          lit(<<":", "/", "/">>)>>), ignoreCase |-> FALSE],
                     [re |-> seq(<<wb,
                         alt(<<lit(<<"l", "i", "n", "k", " ", "i", "n", " ", "b", "i", "o">>),
                         lit(<<"c", "h", "e", "c", "k", " ", "t", "h", "e", " ", "l", "i", "n", "k">>),
                         lit(<<"v", "i", "s", "i", "t">>),
                         lit(<<"c", "l", "i", "c", "k", " ", "h", "e", "r", "e">>),
                         lit(<<"r", "e", "a", "d", " ", "m", "o", "r", "e", " ", "a", "t">>)>>),
                         wb>>), ignoreCase |-> TRUE],
                     [re |-> seq(<<wb, alt(<<lit(<<"l", "i", "n", "k">>),
                         lit(<<"a", "r", "t", "i", "c", "l", "e">>), lit(<<"b", "l", "o", "g">>),
                         lit(<<"p", "o", "d", "c", "a", "s", "t">>),
                         lit(<<"v", "i", "d", "e", "o">>)>>), wb,
                         rep(cls(LineTerminator, TRUE), 0, -1), wb,
                         alt(<<lit(<<"b", "e", "l", "o", "w">>), lit(<<"h", "e", "r", "e">>)>>),
                         wb>>), ignoreCase |-> TRUE] >>],
    [type |-> CTAType.ENGAGEMENT_BAIT,
      patterns |-> << [re |-> seq(<<wb, alt(<<lit(<<"l", "i", "k", "e", " ", "i", "f">>),
          lit(<<"c", "o", "m", "m", "e", "n", "t">>), lit(<<"s", "h", "a", "r", "e">>),
          lit(<<"s", "a", "v", "e">>), lit(<<"f", "o", "l", "l", "o", "w">>),
          lit(<<"s", "u", "b", "s", "c", "r", "i", "b", "e">>),
          lit(<<"r", "e", "t", "w", "e", "e", "t">>)>>), wb>>), ignoreCase |-> TRUE],
                     [re |-> seq(<<wb, alt(<<lit(<<"d", "r", "o", "p", " ", "a">>),
                         lit(<<"l", "e", "a", "v", "e", " ", "a">>), lit(<<"t", "y", "p", "e">>),
                         lit(<<"d", "r", "o", "p", " ", "y", "o", "u", "r">>)>>), wb,
                         rep(cls(LineTerminator, TRUE), 0, -1), wb,
                         alt(<<lit(<<"c", "o", "m", "m", "e", "n", "t">>),
                         lit(<<"b", "e", "l", "o", "w">>), lit(<<"e", "m", "o", "j", "i">>),
                         lit(<<"r", "e", "p", "l", "y">>)>>), wb>>), ignoreCase |-> TRUE],
                     [re |-> seq(<<wb,
                         alt(<<lit(<<"d", "o", "u", "b", "l", "e", " ", "t", "a", "p">>),
                         lit(<<"h", "i", "t", " ", "t", "h", "a", "t">>),
                         lit(<<"s", "m", "a", "s", "h", " ", "t", "h", "a", "t">>)>>), wb>>),
                         ignoreCase |-> TRUE] >>],
    [type |-> CTAType.FOLLOW_UP,
      patterns |-> << [re |-> seq(<<wb,
          alt(<<lit(<<"f", "o", "l", "l", "o", "w", " ", "f", "o", "r">>),
          lit(<<"s", "t", "a", "y", " ", "t", "u", "n", "e", "d">>),
          lit(<<"c", "o", "m", "i", "n", "g", " ", "n", "e", "x", "t">>),
          lit(<<"t", "o", "m", "o", "r", "r", "o", "w", " ", "i", "'", "l", "l">>),
          lit(<<"n", "e", "x", "t", " ", "p", "o", "s", "t">>)>>), wb>>), ignoreCase |-> TRUE],
                     [re |-> seq(<<wb,
                         alt(<<lit(<<"t", "o", " ", "b", "e", " ", "c", "o", "n", "t", "i", "n", "u", "e", "d">>),
                         seq(<<lit(<<"p", "a", "r", "t", " ">>), rep(cls(Digit, FALSE), 1, -1)>>),
                         lit(<<"m", "o", "r", "e", " ", "t", "o", " ", "c", "o", "m", "e">>)>>),
                         wb>>), ignoreCase |-> TRUE],
                     [re |-> seq(<<wb,
                         alt(<<lit(<<"t", "u", "r", "n", " ", "o", "n", " ", "n", "o", "t", "i", "f", "i", "c", "a", "t", "i", "o", "n", "s">>),
                         lit(<<"e", "n", "a", "b", "l", "e", " ", "n", "o", "t", "i", "f", "i", "c", "a", "t", "i", "o", "n", "s">>)>>),
                         wb>>), ignoreCase |-> TRUE] >>],
    [type |-> CTAType.SAVE_FOR_LATER,
      patterns |-> << [re |-> seq(<<wb, alt(<<lit(<<"s", "a", "v", "e", " ", "t", "h", "i", "s">>),
          lit(<<"b", "o", "o", "k", "m", "a", "r", "k">>),
          lit(<<"p", "i", "n", " ", "t", "h", "i", "s">>),
          lit(<<"s", "a", "v", "e", " ", "f", "o", "r", " ", "l", "a", "t", "e", "r">>)>>), wb>>),
          ignoreCase |-> TRUE],
                     [re |-> seq(<<wb,
                         alt(<<lit(<<"s", "a", "v", "e", " ", "t", "h", "i", "s", " ", "p", "o", "s", "t">>),
                         lit(<<"w", "o", "r", "t", "h", " ", "s", "a", "v", "i", "n", "g">>),
                         lit(<<"r", "e", "f", "e", "r", "e", "n", "c", "e">>)>>), wb>>),
                         ignoreCase |-> TRUE] >>],
    [type |-> CTAType.SHARE,
      patterns |-> << [re |-> seq(<<wb,
          alt(<<lit(<<"s", "h", "a", "r", "e", " ", "t", "h", "i", "s">>),
          lit(<<"s", "e", "n", "d", " ", "t", "h", "i", "s", " ", "t", "o">>),
          lit(<<"t", "a", "g", " ", "s", "o", "m", "e", "o", "n", "e">>),
          lit(<<"f", "o", "r", "w", "a", "r", "d", " ", "t", "h", "i", "s">>)>>), wb>>),
          ignoreCase |-> TRUE],
                     [re |-> seq(<<wb,
                         alt(<<lit(<<"t", "h", "i", "s", " ", "m", "i", "g", "h", "t", " ", "h", "e", "l", "p", " ", "s", "o", "m", "e", "o", "n", "e">>),
                         lit(<<"s", "o", "m", "e", "o", "n", "e", " ", "n", "e", "e", "d", "s", " ", "t", "o", " ", "h", "e", "a", "r", " ", "t", "h", "i", "s">>)>>),
                         wb>>), ignoreCase |-> TRUE],
                     [re |-> seq(<<wb, alt(<<lit(<<"r", "e", "p", "o", "s", "t">>),
                         lit(<<"r", "e", "t", "w", "e", "e", "t">>),
                         lit(<<"s", "h", "a", "r", "e", " ", "w", "i", "t", "h", " ", "y", "o", "u", "r">>)>>),
                         wb>>), ignoreCase |-> TRUE] >>],
    [type |-> CTAType.COMMENT_PROMPT,
      patterns |-> << [re |-> seq(<<wb, alt(<<lit(<<"c", "o", "m", "m", "e", "n", "t">>),
          lit(<<"r", "e", "p", "l", "y">>), lit(<<"d", "r", "o", "p">>),
          lit(<<"t", "y", "p", "e">>)>>), wb, rep(cls(LineTerminator, TRUE), 0, -1), wb,
          alt(<<lit(<<"b", "e", "l", "o", "w">>), lit(<<"y", "o", "u", "r">>), seq(<<lit(<<"a">>),
          rep(lit(<<"n">>), 0, 1), lit(<<" ", "e", "m", "o", "j", "i">>)>>)>>), wb>>),
          ignoreCase |-> TRUE],
                     [re |-> seq(<<wb,
                         alt(<<lit(<<"s", "t", "a", "r", "t", "i", "n", "g", " ", "a", " ", "d", "i", "s", "c", "u", "s", "s", "i", "o", "n">>),
                         lit(<<"l", "e", "t", "'", "s", " ", "d", "i", "s", "c", "u", "s", "s">>),
                         lit(<<"c", "o", "n", "v", "e", "r", "s", "a", "t", "i", "o", "n", " ", "s", "t", "a", "r", "t", "e", "r">>)>>),
                         wb>>), ignoreCase |-> TRUE],
                     [re |-> seq(<<wb,
                         alt(<<lit(<<"i", " ", "w", "a", "n", "t", " ", "t", "o", " ", "h", "e", "a", "r", " ", "f", "r", "o", "m", " ", "y", "o", "u">>),
                         lit(<<"t", "e", "l", "l", " ", "m", "e", " ", "a", "b", "o", "u", "t">>)>>),
                         wb>>), ignoreCase |-> TRUE] >>],
    [type |-> CTAType.NONE,
      patterns |-> <<>>] >>

(* the words that reveal an emotional trigger *)
EMOTIONAL_TRIGGER_WORDS ==
  << [trigger |-> EmotionalTrigger.CURIOSITY,
      words |-> <<<<"s", "e", "c", "r", "e", "t">>,
                 <<"h", "i", "d", "d", "e", "n">>,
                 <<"n", "o", "b", "o", "d", "y", " ", "k", "n", "o", "w", "s">>,
                 <<"r", "e", "v", "e", "a", "l", "e", "d">>,
                 <<"d", "i", "s", "c", "o", "v", "e", "r">>,
                 <<"f", "i", "n", "d", " ", "o", "u", "t">>,
                 <<"y", "o", "u", " ", "n", "e", "e", "d", " ", "t", "o", " ", "s", "e", "e">>,
                 <<"m", "u", "s", "t", " ", "r", "e", "a", "d">>>>],
    [trigger |-> EmotionalTrigger.FEAR,
      words |-> <<<<"a", "v", "o", "i", "d">>,
                 <<"d", "a", "n", "g", "e", "r">>,
                 <<"w", "a", "r", "n", "i", "n", "g">>,
                 <<"c", "a", "r", "e", "f", "u", "l">>,
                 <<"d", "o", "n", "'", "t", " ", "m", "a", "k", "e", " ", "t", "h", "i", "s", " ", "m", "i", "s", "t", "a", "k", "e">>,
                 <<"a", "t", " ", "r", "i", "s", "k">>,
                 <<"l", "o", "s", "i", "n", "g">>,
                 <<"s", "c", "a", "r", "e", "d">>>>],
    [trigger |-> EmotionalTrigger.EXCITEMENT,
      words |-> <<<<"a", "m", "a", "z", "i", "n", "g">>,
                 <<"i", "n", "c", "r", "e", "d", "i", "b", "l", "e">>,
                 <<"b", "r", "e", "a", "k", "t", "h", "r", "o", "u", "g", "h">>,
                 <<"r", "e", "v", "o", "l", "u", "t", "i", "o", "n", "a", "r", "y">>,
                 <<"g", "a", "m", "e", "-", "c", "h", "a", "n", "g", "e", "r">>,
                 <<"e", "x", "c", "i", "t", "i", "n", "g">>,
                 <<"t", "h", "r", "i", "l", "l", "e", "d">>>>],
    [trigger |-> EmotionalTrigger.VALIDATION,
      words |-> <<<<"y", "o", "u", "'", "r", "e", " ", "n", "o", "t", " ", "a", "l", "o", "n", "e">>,
                 <<"i", "t", "'", "s", " ", "o", "k", "a", "y">>,
                 <<"n", "o", "r", "m", "a", "l">>,
                 <<"e", "v", "e", "r", "y", "o", "n", "e", " ", "s", "t", "r", "u", "g", "g", "l", "e", "s">>,
                 <<"y", "o", "u", " ", "d", "e", "s", "e", "r", "v", "e">>,
                 <<"y", "o", "u", "r", " ", "f", "e", "e", "l", "i", "n", "g", "s">>>>],
    [trigger |-> EmotionalTrigger.SURPRISE,
      words |-> <<<<"s", "h", "o", "c", "k", "i", "n", "g">>,
                 <<"u", "n", "e", "x", "p", "e", "c", "t", "e", "d">>,
                 <<"y", "o", "u", " ", "w", "o", "n", "'", "t", " ", "b", "e", "l", "i", "e", "v", "e">>,
                 <<"s", "u", "r", "p", "r", "i", "s", "i", "n", "g">>,
                 <<"n", "e", "v", "e", "r", " ", "t", "h", "o", "u", "g", "h", "t">>,
                 <<"p", "l", "o", "t", " ", "t", "w", "i", "s", "t">>>>],
    [trigger |-> EmotionalTrigger.ANGER,
      words |-> <<<<"o", "u", "t", "r", "a", "g", "e", "o", "u", "s">>,
                 <<"u", "n", "a", "c", "c", "e", "p", "t", "a", "b", "l", "e">>,
                 <<"r", "i", "d", "i", "c", "u", "l", "o", "u", "s">>,
                 <<"a", "n", "g", "r", "y">>,
                 <<"f", "r", "u", "s", "t", "r", "a", "t", "e", "d">>,
                 <<"u", "n", "f", "a", "i", "r">>,
                 <<"i", "n", "j", "u", "s", "t", "i", "c", "e">>>>],
    [trigger |-> EmotionalTrigger.NOSTALGIA,
      words |-> <<<<"r", "e", "m", "e", "m", "b", "e", "r", " ", "w", "h", "e", "n">>,
                 <<"b", "a", "c", "k", " ", "i", "n", " ", "t", "h", "e", " ", "d", "a", "y">>,
                 <<"u", "s", "e", "d", " ", "t", "o">>,
                 <<"g", "r", "o", "w", "i", "n", "g", " ", "u", "p">>,
                 <<"c", "h", "i", "l", "d", "h", "o", "o", "d">>,
                 <<"t", "h", "e", " ", "g", "o", "o", "d", " ", "o", "l", "d">>>>],
    [trigger |-> EmotionalTrigger.INSPIRATION,
      words |-> <<<<"d", "r", "e", "a", "m">>,
                 <<"b", "e", "l", "i", "e", "v", "e">>,
                 <<"a", "c", "h", "i", "e", "v", "e">>,
                 <<"s", "u", "c", "c", "e", "s", "s">>,
                 <<"i", "n", "s", "p", "i", "r", "e">>,
                 <<"m", "o", "t", "i", "v", "a", "t", "e">>,
                 <<"y", "o", "u", " ", "c", "a", "n", " ", "d", "o", " ", "i", "t">>,
                 <<"n", "e", "v", "e", "r", " ", "g", "i", "v", "e", " ", "u", "p">>>>],
    [trigger |-> EmotionalTrigger.FRUSTRATION,
      words |-> <<<<"t", "i", "r", "e", "d", " ", "o", "f">>,
                 <<"s", "i", "c", "k", " ", "o", "f">>,
                 <<"e", "n", "o", "u", "g", "h", " ", "i", "s", " ", "e", "n", "o", "u", "g", "h">>,
                 <<"f", "r", "u", "s", "t", "r", "a", "t", "i", "n", "g">>,
                 <<"a", "n", "n", "o", "y", "i", "n", "g">>,
                 <<"s", "i", "c", "k", " ", "a", "n", "d", " ", "t", "i", "r", "e", "d">>>>],
    [trigger |-> EmotionalTrigger.HOPE,
      words |-> <<<<"h", "o", "p", "e">>,
                 <<"o", "p", "p", "o", "r", "t", "u", "n", "i", "t", "y">>,
                 <<"p", "o", "s", "s", "i", "b", "l", "e">>,
                 <<"b", "r", "i", "g", "h", "t", " ", "f", "u", "t", "u", "r", "e">>,
                 <<"l", "o", "o", "k", "i", "n", "g", " ", "f", "o", "r", "w", "a", "r", "d">>,
                 <<"o", "p", "t", "i", "m", "i", "s", "t", "i", "c">>,
                 <<"b", "e", "t", "t", "e", "r", " ", "d", "a", "y", "s">>>>],
    [trigger |-> EmotionalTrigger.URGENCY,
      words |-> <<<<"n", "o", "w">>,
                 <<"t", "o", "d", "a", "y">>,
                 <<"i", "m", "m", "e", "d", "i", "a", "t", "e", "l", "y">>,
                 <<"d", "o", "n", "'", "t", " ", "w", "a", "i", "t">>,
                 <<"r", "u", "n", "n", "i", "n", "g", " ", "o", "u", "t">>,
                 <<"l", "i", "m", "i", "t", "e", "d", " ", "t", "i", "m", "e">>,
                 <<"b", "e", "f", "o", "r", "e", " ", "i", "t", "'", "s", " ", "t", "o", "o", " ", "l", "a", "t", "e">>>>],
    [trigger |-> EmotionalTrigger.FOMO,
      words |-> <<<<"e", "v", "e", "r", "y", "o", "n", "e", " ", "i", "s">>,
                 <<"d", "o", "n", "'", "t", " ", "m", "i", "s", "s">>,
                 <<"l", "a", "s", "t", " ", "c", "h", "a", "n", "c", "e">>,
                 <<"e", "x", "c", "l", "u", "s", "i", "v", "e">>,
                 <<"o", "n", "l", "y">>,
                 <<" ", "s", "p", "o", "t", "s", " ", "l", "e", "f", "t">>,
                 <<"b", "e", "f", "o", "r", "e", " ", "e", "v", "e", "r", "y", "o", "n", "e", " ", "e", "l", "s", "e">>>>] >>

-----------------------------------------------------------------------------
(* Parsing a post (viral-analyzer.ts) *)

(* str.split(separator): the pieces between the matches of the separator *)
pieces(str, found) ==
  [k \in 1..(Len(found) + 1) |->
     SubSeq(str, IF k = 1 THEN 1 ELSE found[k - 1].index + Len(found[k - 1].text) + 1,
                 IF k > Len(found) THEN Len(str) ELSE found[k].index)]

split(str, pattern) == pieces(str, execAll(str, pattern))

(* String.prototype.trim *)
trim(s) ==
  IF \A i \in 1..Len(s) : s[i] \in SpaceChar THEN <<>>
  ELSE SubSeq(s, CHOOSE i \in 1..Len(s) : s[i] \notin SpaceChar /\ \A j \in 1..(i - 1) : s[j] \in SpaceChar,
                 CHOOSE i \in 1..Len(s) : s[i] \notin SpaceChar /\ \A j \in (i + 1)..Len(s) : s[j] \in SpaceChar)

(* String.prototype.endsWith *)
endsWith(s, suffix) ==
  Len(suffix) <= Len(s) /\ SubSeq(s, Len(s) - Len(suffix) + 1, Len(s)) = suffix

(* Array.prototype.join *)
RECURSIVE join(_, _)
join(arr, separator) ==
  IF arr = <<>> THEN <<>>
  ELSE IF Len(arr) = 1 THEN arr[1]
  ELSE arr[1] \o separator \o join(Tail(arr), separator)

(* arr.slice(0, n) and arr.slice(-n) *)
sliceFirst(arr, n) == SubSeq(arr, 1, IF Len(arr) < n THEN Len(arr) ELSE n)

sliceLast(arr, n) == SubSeq(arr, IF Len(arr) < n THEN 1 ELSE Len(arr) - n + 1, Len(arr))

(* the sum of the numbers lo..hi of an array *)
RECURSIVE sumOf(_, _, _)
sumOf(arr, lo, hi) ==
  IF lo > hi THEN 0
  ELSE IF lo = hi THEN arr[lo]
  ELSE sumOf(arr, lo, (lo + hi) \div 2) + sumOf(arr, (lo + hi) \div 2 + 1, hi)

sum(arr) == sumOf(arr, 1, Len(arr))

newline == [re |-> lit(<<"\n">>), ignoreCase |-> FALSE]

blankLine == [re |-> seq(<<lit(<<"\n">>), rep(cls(SpaceChar, FALSE), 0, -1), lit(<<"\n">>)>>), ignoreCase |-> FALSE]

whitespace == [re |-> rep(cls(SpaceChar, FALSE), 1, -1), ignoreCase |-> FALSE]

emojiRegex == [re |-> alt(<<cls(Pictographs, FALSE), cls(MiscSymbols, FALSE), cls(Dingbats, FALSE)>>), ignoreCase |-> FALSE]

hashtagRegex == [re |-> seq(<<lit(<<"#">>), rep(cls(WordChar, FALSE), 1, -1)>>), ignoreCase |-> FALSE]

mentionRegex == [re |-> seq(<<lit(<<"@">>), rep(cls(WordChar, FALSE), 1, -1)>>), ignoreCase |-> FALSE]

urlRegex == [re |-> seq(<<lit(<<"h", "t", "t", "p">>), rep(lit(<<"s">>), 0, 1), lit(<<":", "/", "/">>), rep(cls(SpaceChar, TRUE), 1, -1)>>), ignoreCase |-> FALSE]

numberRegex == [re |-> seq(<<wb, rep(cls(Digit, FALSE), 1, -1), rep(seq(<<lit(<<",">>), rep(cls(Digit, FALSE), 3, 3)>>), 0, -1), rep(seq(<<lit(<<".">>), rep(cls(Digit, FALSE), 1, -1)>>), 0, 1), rep(lit(<<"%">>), 0, 1), wb>>), ignoreCase |-> FALSE]

upperCaseLetter == [re |-> cls(Range(UpperLetters), FALSE), ignoreCase |-> FALSE]

letter == [re |-> cls(Range(LowerLetters) \cup Range(UpperLetters), FALSE), ignoreCase |-> FALSE]

isNotBlank(s) == Len(trim(s)) > 0

isNotEmpty(s) == Len(s) > 0

hasUpperCaseLetter(w) == test(upperCaseLetter, w)

hasLetter(w) == test(letter, w)

isAllCaps(w) == length(w) > 1 /\ w = toUpperCase(w) /\ hasUpperCaseLetter(w)

isLetter(c) == c \in Range(UpperLetters) \cup Range(LowerLetters)

(* w.replace(/[^a-zA-Z]/g, '') *)
lettersOf(w) == SelectSeq(w, isLetter)

isTitleCase(w) ==
  /\ Len(lettersOf(w)) > 0
  /\ <<lettersOf(w)[1]>> = toUpperCase(<<lettersOf(w)[1]>>)
  /\ Tail(lettersOf(w)) = toLowerCase(Tail(lettersOf(w)))

(* the mean of the lengths, 0 for no strings *)
avgLength(arr) ==
  IF Len(arr) > 0 THEN Rat(sum([i \in 1..Len(arr) |-> length(arr[i])]), Len(arr)) ELSE Num(0)

analyzeCapitalization(content) ==
  [ hasAllCaps |-> Len(SelectSeq(split(content, whitespace), isAllCaps)) > 0,
    allCapsWords |-> SelectSeq(split(content, whitespace), isAllCaps),
    hasTitleCase |-> Len(SelectSeq(split(content, whitespace), isTitleCase)) > 0,
    averageWordLength |->
      RMul(Num(round(RMul(avgLength(SelectSeq(split(content, whitespace), hasLetter)), Num(10)))),
           Rat(1, 10)) ]

analyzeLineBreaks(lines) ==
  [ totalLineBreaks |-> Len(lines) - 1,
    averageLineLength |-> round(avgLength(lines)),
    shortLines |-> Cardinality({i \in 1..Len(lines) : length(lines[i]) < 30}),
    mediumLines |-> Cardinality({i \in 1..Len(lines) : length(lines[i]) >= 30 /\ length(lines[i]) < 100}),
    longLines |-> Cardinality({i \in 1..Len(lines) : length(lines[i]) >= 100}),
    hasDoubleLineBreaks |-> \E i \in 1..Len(lines) : Len(trim(lines[i])) = 0 ]

parsePostContent(content) ==
  [ original |-> content,
    lines |-> SelectSeq(split(content, newline), isNotBlank),
    paragraphs |-> SelectSeq(split(content, blankLine), isNotBlank),
    wordCount |-> Len(SelectSeq(split(content, whitespace), isNotEmpty)),
    characterCount |-> length(content),
    hasEmoji |-> Len(matchAll(content, emojiRegex)) > 0,
    emojiCount |-> Len(matchAll(content, emojiRegex)),
    hasHashtags |-> Len(matchAll(content, hashtagRegex)) > 0,
    hashtags |-> matchAll(content, hashtagRegex),
    hasMentions |-> Len(matchAll(content, mentionRegex)) > 0,
    mentions |-> matchAll(content, mentionRegex),
    hasLinks |-> Len(matchAll(content, urlRegex)) > 0,
    links |-> matchAll(content, urlRegex),
    hasNumbers |-> Len(matchAll(content, numberRegex)) > 0,
    numbers |-> matchAll(content, numberRegex),
    capitalizationPatterns |-> analyzeCapitalization(content),
    lineBreakStructure |-> analyzeLineBreaks(SelectSeq(split(content, newline), isNotBlank)) ]

-----------------------------------------------------------------------------
(* Detecting the format pattern (viral-analyzer.ts) *)

(* a.match(pattern) || b.match(pattern), given the first of the two *)
orMatch(found, b, pattern) == IF found # null THEN found ELSE match(b, pattern)

(* what a loop over rules keeps of two results, the second found later: *)
(* only a higher confidence replaces the best match so far              *)
better_LaterWins(bestMatch, later) ==
  IF RLe(bestMatch.confidence, later.confidence) THEN later ELSE bestMatch

better(bestMatch, later) == IF RLt(bestMatch.confidence, later.confidence) THEN later ELSE bestMatch

noMatch(none) == [type |-> none, confidence |-> Num(0), matchedText |-> <<>>]

(* what one rule of a hook type proposes: 0.9 for a match at position 0, else 0.7 *)
hookOfRule(hookType, found) ==
  IF found = null THEN noMatch(HookType.NONE)
  ELSE [ type |-> hookType,
         confidence |-> IF found.index = 0 THEN Rat(9, 10) ELSE Rat(7, 10),
         matchedText |-> found.text ]

(* what a loop leaves of the results lo..hi, taken in order *)
RECURSIVE bestOf(_, _, _)
bestOf(found, lo, hi) ==
  IF lo = hi THEN found[lo]
  ELSE better(bestOf(found, lo, (lo + hi) \div 2), bestOf(found, (lo + hi) \div 2 + 1, hi))

(* the loop over the rules of one hook type *)
hookOfType(firstLine, firstTwoLines, entry) ==
  IF entry.type = HookType.NONE \/ entry.patterns = <<>> THEN noMatch(HookType.NONE)
  ELSE the({bestOf(found, 1, Len(found)) :
              found \in {array([p \in 1..Len(entry.patterns) |->
                                  hookOfRule(entry.type,
                                             orMatch(match(firstLine, entry.patterns[p]), firstTwoLines,
                                                     entry.patterns[p]))])}})

(* the loop over the hook types of the table *)
hookRules(firstLine, firstTwoLines) ==
  the({better(noMatch(HookType.NONE), bestOf(found, 1, Len(found))) :
         found \in {array([t \in 1..Len(HOOK_PATTERNS) |->
                             hookOfType(firstLine, firstTwoLines, HOOK_PATTERNS[t])])}})

(* the fallback for a first line that ends in a question mark *)
hookFallback(parsed, bestMatch) ==
  IF Len(parsed.lines) > 0 /\ endsWith(parsed.lines[1], <<"?">>) /\ RLt(bestMatch.confidence, Rat(8, 10))
  THEN [type |-> HookType.QUESTION, confidence |-> Rat(85, 100), matchedText |-> parsed.lines[1]]
  ELSE bestMatch

detectHookType(parsed) ==
  hookFallback(parsed,
    hookRules(IF Len(parsed.lines) > 0 THEN toLowerCase(parsed.lines[1]) ELSE <<>>,
              toLowerCase(join(sliceFirst(parsed.lines, 2), <<" ">>))))

numberedItem == [re |-> seq(<<lit(<<"\n">>), rep(cls(Digit, FALSE), 1, -1), lit(<<".">>)>>), ignoreCase |-> FALSE]

bulletPoint == [re |-> seq(<<lit(<<"\n">>), cls({"U+00E2", "U+20AC", "U+00A2", "-", "*", "U+2020", "U+2019"}, FALSE)>>), ignoreCase |-> FALSE]

(* Number.prototype.toString for a count *)
RECURSIVE toString(_)
toString(n) == IF n < 10 THEN <<Digits[n + 1]>> ELSE toString(n \div 10) \o <<Digits[(n % 10) + 1]>>

(* indicator.replace('-', ' '): the first hyphen only *)
replaceHyphen(s) ==
  IF \E i \in 1..Len(s) : s[i] = "-"
  THEN [s EXCEPT ![CHOOSE i \in 1..Len(s) : s[i] = "-" /\ \A j \in 1..(i - 1) : s[j] # "-"] = " "]
  ELSE s

(* matchCount of one body type: 1 for each rule that matches, 0.5 for each indicator found *)
bodyMatchCount(content, entry) ==
  RAdd(Num(Cardinality({p \in 1..Len(entry.patterns) : test(entry.patterns[p], content)})),
       Rat(Cardinality({k \in 1..Len(entry.indicators) :
                          includes(content, replaceHyphen(entry.indicators[k]))}), 2))

(* the last indicator found, if any *)
matchedIndicator(content, entry) ==
  IF \E k \in 1..Len(entry.indicators) : includes(content, replaceHyphen(entry.indicators[k]))
  THEN entry.indicators[CHOOSE k \in 1..Len(entry.indicators) :
         /\ includes(content, replaceHyphen(entry.indicators[k]))
         /\ \A j \in (k + 1)..Len(entry.indicators) :
              ~includes(content, replaceHyphen(entry.indicators[j]))]
  ELSE <<"p", "a", "t", "t", "e", "r", "n", "-", "d", "e", "t", "e", "c", "t", "e", "d">>

(* what one body type proposes *)
bodyOfType(content, entry, matchCount) ==
  IF RLt(Num(0), matchCount)
  THEN [ type |-> entry.type,
         confidence |-> RMin(Rat(9, 10), RAdd(Rat(4, 10), RMul(matchCount, Rat(15, 100)))),
         structure |-> matchedIndicator(content, entry) ]
  ELSE [type |-> entry.type, confidence |-> Num(0), structure |-> <<>>]

(* the loop over the body types of the table *)
bodyTypes(content) ==
  the({bestOf(found, 1, Len(found)) :
         found \in {array([t \in 1..Len(BODY_PATTERNS) |->
                             bodyOfType(content, BODY_PATTERNS[t],
                                        bodyMatchCount(content, BODY_PATTERNS[t]))])}})

detectBodyType(parsed) ==
  IF test(numberedItem, parsed.original) \/ test(bulletPoint, parsed.original)
  THEN [ type |-> BodyType.LISTICLE,
         confidence |-> Rat(9, 10),
         structure |-> toString(Len(matchAll(parsed.original, numberedItem))
                                + Len(matchAll(parsed.original, bulletPoint))) \o <<" ", "i", "t", "e", "m", "s">> ]
  ELSE better([type |-> BodyType.INSIGHT_SHARING, confidence |-> Rat(3, 10), structure |-> <<"g", "e", "n", "e", "r", "a", "l">>],
              bodyTypes(toLowerCase(parsed.original)))

(* a rule that takes every match for one in the last three lines *)
ctaOfRule_AlwaysInWindow(ctaType, lastLines, found) ==
  IF found = null THEN noMatch(CTAType.NONE)
  ELSE [type |-> ctaType, confidence |-> Rat(85, 100), matchedText |-> found.text]

(* what one call-to-action rule proposes: 0.85 when the matched text *)
(* occurs in the last three lines, else 0.7                           *)
ctaOfRule(ctaType, lastLines, found) ==
  IF found = null THEN noMatch(CTAType.NONE)
  ELSE [ type |-> ctaType,
         confidence |-> IF includes(lastLines, found.text) THEN Rat(85, 100) ELSE Rat(7, 10),
         matchedText |-> found.text ]

(* the loop over the rules of one call-to-action type *)
ctaOfType(lastLines, fullContent, entry) ==
  IF entry.type = CTAType.NONE \/ entry.patterns = <<>> THEN noMatch(CTAType.NONE)
  ELSE the({bestOf(found, 1, Len(found)) :
              found \in {array([p \in 1..Len(entry.patterns) |->
                                  ctaOfRule(entry.type, lastLines,
                                            orMatch(match(lastLines, entry.patterns[p]), fullContent,
                                                    entry.patterns[p]))])}})

(* a loop that leaves out the rules of the first type, QUESTION_TO_AUDIENCE *)
ctaRules_WithoutQuestionRules(lastLines, fullContent) ==
  the({better(noMatch(CTAType.NONE), bestOf(found, 2, Len(found))) :
         found \in {array([t \in 1..Len(CTA_PATTERNS) |->
                             ctaOfType(lastLines, fullContent, CTA_PATTERNS[t])])}})

(* the loop over the call-to-action types of the table *)
ctaRules(lastLines, fullContent) ==
  the({better(noMatch(CTAType.NONE), bestOf(found, 1, Len(found))) :
         found \in {array([t \in 1..Len(CTA_PATTERNS) |->
                             ctaOfType(lastLines, fullContent, CTA_PATTERNS[t])])}})

(* the fallback for a last line that ends in a question mark *)
ctaQuestionFallback(parsed, bestMatch) ==
  IF Len(parsed.lines) > 0 /\ endsWith(parsed.lines[Len(parsed.lines)], <<"?">>)
     /\ RLt(bestMatch.confidence, Rat(7, 10))
  THEN [ type |-> CTAType.QUESTION_TO_AUDIENCE, confidence |-> Rat(75, 100),
         matchedText |-> parsed.lines[Len(parsed.lines)] ]
  ELSE bestMatch

(* the fallback for a post that holds a link *)
ctaLinkFallback(parsed, bestMatch) ==
  IF parsed.hasLinks /\ RLt(bestMatch.confidence, Rat(6, 10))
  THEN [type |-> CTAType.LINK, confidence |-> Rat(6, 10), matchedText |-> parsed.links[1]]
  ELSE bestMatch

detectCTAType(parsed) ==
  ctaLinkFallback(parsed,
    ctaQuestionFallback(parsed,
      ctaRules(toLowerCase(join(sliceLast(parsed.lines, 3), <<" ">>)),
               toLowerCase(parsed.original))))

detectedFormatPattern(hookResult, bodyResult, ctaResult) ==
  [ hookType |-> hookResult.type,
    hookConfidence |-> hookResult.confidence,
    hookText |-> hookResult.matchedText,
    bodyType |-> bodyResult.type,
    bodyConfidence |-> bodyResult.confidence,
    bodyStructure |-> bodyResult.structure,
    ctaType |-> ctaResult.type,
    ctaConfidence |-> ctaResult.confidence,
    ctaText |-> ctaResult.matchedText ]

identifyFormatPattern(parsed, platform) ==
  detectedFormatPattern(detectHookType(parsed), detectBodyType(parsed), detectCTAType(parsed))

-----------------------------------------------------------------------------
(* Viral signals and the virality score (viral-analyzer.ts) *)

(* the triggers that have one of their words in the content, in the order of the table *)
RECURSIVE triggersFrom(_, _)
triggersFrom(content, t) ==
  IF t > Len(EMOTIONAL_TRIGGER_WORDS) THEN <<>>
  ELSE (IF \E w \in 1..Len(EMOTIONAL_TRIGGER_WORDS[t].words) :
             includes(content, toLowerCase(EMOTIONAL_TRIGGER_WORDS[t].words[w]))
        THEN <<EMOTIONAL_TRIGGER_WORDS[t].trigger>> ELSE <<>>)
       \o triggersFrom(content, t + 1)

detectEmotionalTriggers(parsed) == triggersFrom(toLowerCase(parsed.original), 1)

calculateLengthScore(parsed, platform) ==
  IF platform = linkedin
  THEN IF parsed.wordCount >= 150 /\ parsed.wordCount <= 300 THEN Num(100)
       ELSE IF parsed.wordCount < 150
            THEN RMax(Num(0), Num(100 - (150 - parsed.wordCount) * 2))
            ELSE RMax(Num(0), RSub(Num(100), RMul(Num(parsed.wordCount - 300), Rat(1, 2))))
  ELSE IF parsed.wordCount >= 50 /\ parsed.wordCount <= 280 THEN Num(100)
       ELSE IF parsed.wordCount < 50
            THEN RMax(Num(0), Num(100 - (50 - parsed.wordCount) * 2))
            ELSE RMax(Num(0), RSub(Num(100), RMul(Num(parsed.wordCount - 280), Rat(1, 2))))

(* the number of points that the conditions that hold are worth *)
pointsFor(awards) == sum([k \in 1..Len(awards) |-> IF awards[k][1] THEN awards[k][2] ELSE 0])

Min(a, b) == IF b < a THEN b ELSE a

twoCapitals == [re |-> rep(cls(Range(UpperLetters), FALSE), 2, -1), ignoreCase |-> FALSE]

leadingDigits == [re |-> seq(<<bol, rep(cls(Digit, FALSE), 1, -1)>>), ignoreCase |-> FALSE]

pictograph == [re |-> cls(Pictographs, FALSE), ignoreCase |-> FALSE]

listItem == [re |-> alt(<<seq(<<lit(<<"\n">>), cls({"U+00E2", "U+20AC", "U+00A2", "-", "*", "U+2020", "U+2019"}, FALSE)>>), seq(<<lit(<<"\n">>), rep(cls(Digit, FALSE), 1, -1), lit(<<".">>)>>)>>), ignoreCase |-> FALSE]

hookStrength(firstLine) ==
  Min(100, 50 + pointsFor(<< <<endsWith(firstLine, <<"?">>), 20>>,
                           <<test(twoCapitals, firstLine), 15>>,
                           <<test(leadingDigits, firstLine), 15>>,
                           <<length(firstLine) < 100, 10>>,
                           <<test(pictograph, firstLine), 10>> >>))

calculateHookStrengthScore(parsed) ==
  hookStrength(IF Len(parsed.lines) > 0 THEN parsed.lines[1] ELSE <<>>)

calculateReadabilityScore(parsed) ==
  Min(100, 70 + pointsFor(<< <<parsed.lineBreakStructure.averageLineLength < 80, 10>>,
                           <<Len(parsed.paragraphs) > 1, 10>>,
                           <<parsed.lineBreakStructure.shortLines > parsed.lineBreakStructure.longLines, 5>>,
                           <<RLt(parsed.capitalizationPatterns.averageWordLength, Num(6)), 5>> >>))

calculateEngagementPotential(parsed) ==
  Min(100, 40 + pointsFor(<< <<parsed.hasEmoji, 15>>,
                           <<parsed.hasHashtags, 10>>,
                           <<parsed.hasNumbers, 15>>,
                           <<includes(parsed.original, <<"?">>), 10>>,
                           <<test(listItem, parsed.original), 10>> >>))

calculateViralityIndicators(parsed, platform) ==
  << [indicator |-> "optimal_length", score |-> calculateLengthScore(parsed, platform)],
     [indicator |-> "hook_strength", score |-> Num(calculateHookStrengthScore(parsed))],
     [indicator |-> "readability", score |-> Num(calculateReadabilityScore(parsed))],
     [indicator |-> "engagement_potential", score |-> Num(calculateEngagementPotential(parsed))] >>

(* the signals that the score and the confidence read; the format    *)
(* elements, timing signals and topic relevance enter neither of them *)
extractViralSignals(parsed, platform) ==
  [ emotionalTriggers |-> detectEmotionalTriggers(parsed),
    viralityIndicators |-> calculateViralityIndicators(parsed, platform) ]

(* a hook term without the 5 points of a post that has no hook *)
calculateHookScore_NothingWithoutHook(formatPattern) ==
  RMin(Num(25), RAdd(Num(IF formatPattern.hookType # HookType.NONE THEN 15 ELSE 0),
                     RMul(formatPattern.hookConfidence, Num(10))))

calculateHookScore(formatPattern) ==
  RMin(Num(25), RAdd(Num(IF formatPattern.hookType # HookType.NONE THEN 15 ELSE 5),
                     RMul(formatPattern.hookConfidence, Num(10))))

calculateBodyScore(parsed, formatPattern) ==
  RMin(Num(25),
       RAdd(Num(10 + pointsFor(<< <<formatPattern.bodyType # BodyType.INSIGHT_SHARING, 8>>,
                                <<parsed.lineBreakStructure.totalLineBreaks > 3, 3>>,
                                <<Len(parsed.paragraphs) > 1, 2>> >>)),
            RMul(formatPattern.bodyConfidence, Num(7))))

ctaScores ==
  << <<CTAType.QUESTION_TO_AUDIENCE, 15>>, <<CTAType.ENGAGEMENT_BAIT, 14>>,
     <<CTAType.COMMENT_PROMPT, 13>>, <<CTAType.SHARE, 12>>, <<CTAType.SAVE_FOR_LATER, 11>>,
     <<CTAType.LINK, 10>>, <<CTAType.FOLLOW_UP, 9>>, <<CTAType.NONE, 5>> >>

(* ctaScores[ctaType] || 8 *)
ctaBaseScore(ctaType) ==
  IF \E k \in 1..Len(ctaScores) : ctaScores[k][1] = ctaType /\ ctaScores[k][2] # 0
  THEN ctaScores[CHOOSE k \in 1..Len(ctaScores) : ctaScores[k][1] = ctaType][2]
  ELSE 8

(* the table and the bonus for every type, NONE among them *)
calculateCTAScore_NoneByTable(formatPattern) ==
  RMin(Num(15), RAdd(Num(ctaBaseScore(formatPattern.ctaType) - 5),
                     RMul(formatPattern.ctaConfidence, Num(5))))

calculateCTAScore(formatPattern) ==
  IF formatPattern.ctaType = CTAType.NONE THEN Num(5)
  ELSE RMin(Num(15), RAdd(Num(ctaBaseScore(formatPattern.ctaType) - 5),
                          RMul(formatPattern.ctaConfidence, Num(5))))

strongEmotions == <<EmotionalTrigger.CURIOSITY, EmotionalTrigger.SURPRISE, EmotionalTrigger.URGENCY>>

calculateEmotionalScore(signals) ==
  Min(15, Min(10, Len(signals.emotionalTriggers) * 3)
          + (IF \E k \in 1..Len(signals.emotionalTriggers) :
                  arrayIncludes(strongEmotions, signals.emotionalTriggers[k])
             THEN 5 ELSE 0))

calculateFormatScore(parsed, platform) ==
  Min(10, 5 + IF platform = linkedin
              THEN pointsFor(<< <<parsed.lineBreakStructure.totalLineBreaks >= 3, 2>>,
                             <<Len(parsed.paragraphs) >= 2, 2>>,
                             <<parsed.emojiCount >= 1 /\ parsed.emojiCount <= 5, 1>> >>)
              ELSE pointsFor(<< <<parsed.hasHashtags, 2>>,
                             <<parsed.emojiCount >= 1, 2>>,
                             <<parsed.wordCount <= 280, 1>> >>))

calculatePlatformFitScore(parsed, platform) ==
  Min(10, 5 + IF platform = linkedin
              THEN pointsFor(<< <<parsed.wordCount >= 100 /\ parsed.wordCount <= 400, 3>>,
                             <<Len(parsed.paragraphs) >= 2, 2>> >>)
              ELSE pointsFor(<< <<parsed.wordCount <= 280, 3>>, <<parsed.hasHashtags, 2>> >>))

(* the sum of the six terms *)
scoreSum(post, parsed, formatPattern, signals) ==
  RAdd(RAdd(RAdd(calculateHookScore(formatPattern), calculateBodyScore(parsed, formatPattern)),
            calculateCTAScore(formatPattern)),
       Num(calculateEmotionalScore(signals) + calculateFormatScore(parsed, post.platform)
           + calculatePlatformFitScore(parsed, post.platform)))

(* the engagement bonus: ten percent more, with 100 as the limit *)
boosted(post, score) ==
  IF post.metrics.engagementRate # 0 /\ post.metrics.engagementRate > 5
  THEN RMin(Num(100), RMul(score, Rat(11, 10)))
  ELSE score

calculateViralityScore_NotRounded(post, parsed, formatPattern, signals) ==
  RMin(Num(100), boosted(post, scoreSum(post, parsed, formatPattern, signals)))

calculateViralityScore(post, parsed, formatPattern, signals) ==
  RMin(Num(100), Num(round(boosted(post, scoreSum(post, parsed, formatPattern, signals)))))

(* viralityIndicators.reduce((sum, i) => sum + i.score, 0) *)
RECURSIVE sumOfScores(_)
sumOfScores(indicators) ==
  IF indicators = <<>> THEN Num(0) ELSE RAdd(Head(indicators).score, sumOfScores(Tail(indicators)))

(* the mean of the three confidences weighs 0.7, the mean of the *)
(* indicator scores, as a fraction of 100, weighs 0.3            *)
signalStrength(signals) ==
  RMul(sumOfScores(signals.viralityIndicators), Rat(1, Len(signals.viralityIndicators) * 100))

calculateOverallConfidence_NotRescaled(formatPattern, signals) ==
  Num(round(RMul(RAdd(RMul(RMul(RAdd(RAdd(formatPattern.hookConfidence, formatPattern.bodyConfidence),
                                     formatPattern.ctaConfidence), Rat(1, 3)), Rat(7, 10)),
                      RMul(signalStrength(signals), Rat(3, 10))),
                 Num(100))))

calculateOverallConfidence(formatPattern, signals) ==
  RMul(Num(round(RMul(RAdd(RMul(RMul(RAdd(RAdd(formatPattern.hookConfidence, formatPattern.bodyConfidence),
                                          formatPattern.ctaConfidence), Rat(1, 3)), Rat(7, 10)),
                           RMul(signalStrength(signals), Rat(3, 10))),
                      Num(100)))),
       Rat(1, 100))

(* the analysis of a post: the score, the confidence, the pattern and the signals *)
analysisOf(post, parsed, formatPattern, viralSignals) ==
  [ viralityScore |-> calculateViralityScore(post, parsed, formatPattern, viralSignals),
    confidence |-> calculateOverallConfidence(formatPattern, viralSignals),
    formatPattern |-> formatPattern,
    viralSignals |-> viralSignals ]

-----------------------------------------------------------------------------
(* The analyzer applied to a post.  The analyzer keeps no state: a        *)
(* behaviour draws a post and applies one of its functions to it.         *)

Contents ==
  { <<>>,
    <<" ", " ", "\n", " ", "\n">>,
    <<"A", "I", " ", "j", "o", "b">>,
    <<"N", "i", "c", "e", " ", "d", "a", "y">>,
    <<"?">>,
    <<"M", "y", " ", "h", "o", "t", " ", "t", "a", "k", "e", ":", " ", "i", "s", " ", "i", "t", " ", "o", "v", "e", "r", "r", "a", "t", "e", "d", "?">>,
    <<"S", "t", "o", "p", ".", " ", "I", "s", " ", "A", "I", " ", "o", "v", "e", "r", "r", "a", "t", "e", "d", "?">>,
    <<"M", "y", " ", "h", "o", "t", " ", "t", "a", "k", "e", ":", " ", "A", "I", " ", "i", "s", " ", "o", "v", "e", "r", "r", "a", "t", "e", "d">>,
    <<"5", " ", "w", "a", "y", "s", ":", " ", "m", "y", " ", "h", "o", "t", " ", "t", "a", "k", "e">>,
    <<"D", "o", "\n", "y", "o", "u", " ", "a", "g", "r", "e", "e", " ", "w", "i", "t", "h", " ", "t", "h", "e", " ", "d", "a", "t", "a">>,
    <<"A", "I", " ", "i", "s", " ", "h", "e", "r", "e", "\n", "A", "g", "r", "e", "e", "?">>,
    <<"S", "e", "e", " ", "t", "h", "e", " ", "f", "i", "x", " ", "a", "t", " ", "h", "t", "t", "p", "s", ":", "/", "/", "x", ".", "i", "o", "/", "a">>,
    <<"C", "o", "m", "m", "e", "n", "t", " ", "o", "n", " ", "t", "h", "i", "s", "\n", "b", "\n", "c", "\n", "d", "\n", "I", " ", "l", "e", "a", "r", "n", "e", "d", " ", "a", " ", "l", "e", "s", "s", "o", "n">>,
    <<"T", "i", "p", "s", "\n", "U+2022", " ", "o", "n", "e", "\n", "U+2022", " ", "t", "w", "o">>,
    <<"B", "o", "o", "k", "m", "a", "r", "k">>,
    <<"S", "t", "a", "y", " ", "t", "u", "n", "e", "d">>,
    <<"R", "e", "p", "o", "s", "t">>,
    <<"T", "e", "l", "l", " ", "m", "e", " ", "a", "b", "o", "u", "t", " ", "i", "t">>,
    <<"W", "h", "a", "t", " ", "i", "s", " ", "t", "h", "e", " ", "s", "e", "c", "r", "e", "t", "?", "\n", "\n", "1", ".", " ", "a", "v", "o", "i", "d", " ", "i", "t", " ", "n", "o", "w", "\n", "2", ".", " ", "a", "m", "a", "z", "i", "n", "g", " ", "h", "o", "p", "e", " ", "#", "A", "I", " ", "U+1F680", "\n", "3", ".", " ", "o", "k", "\n", "A", "g", "r", "e", "e", "?">> }

EngagementRates == {0, 6}

ViralPosts ==
  { [platform |-> platform, content |-> content, metrics |-> [engagementRate |-> engagementRate]] :
      platform \in {linkedin, twitter}, content \in Contents, engagementRate \in EngagementRates }

InitAnalyzer ==
  /\ formatStore = initializeDefaultFormats(<<>>, 0)
  /\ clock = 0
  /\ \E post \in ViralPosts : lastOp = [op |-> "post", post |-> post]
  /\ result = [kind |-> "void"]
  /\ run = NoRun

ParsePostContent ==
  /\ lastOp.op = "post"
  /\ result' = [kind |-> "parsed", value |-> parsePostContent(lastOp.post.content)]
  /\ lastOp' = [op |-> "parsePostContent", post |-> lastOp.post]
  /\ UNCHANGED <<formatStore, clock, run>>

DetectHookType ==
  /\ lastOp.op = "post"
  /\ \E parsed \in {parsePostContent(lastOp.post.content)} :
       result' = [kind |-> "hook", value |-> detectHookType(parsed)]
  /\ lastOp' = [op |-> "detectHookType", post |-> lastOp.post]
  /\ UNCHANGED <<formatStore, clock, run>>

IdentifyFormatPattern ==
  /\ lastOp.op = "post"
  /\ \E parsed \in {parsePostContent(lastOp.post.content)} :
       result' = [kind |-> "formatPattern", value |-> identifyFormatPattern(parsed, lastOp.post.platform)]
  /\ lastOp' = [op |-> "identifyFormatPattern", post |-> lastOp.post]
  /\ UNCHANGED <<formatStore, clock, run>>

(* analyzePost: each constant is computed before the next statement *)
AnalyzePost ==
  /\ lastOp.op = "post"
  /\ \E parsed \in {parsePostContent(lastOp.post.content)} :
       \E formatPattern \in {identifyFormatPattern(parsed, lastOp.post.platform)},
          viralSignals \in {extractViralSignals(parsed, lastOp.post.platform)} :
         result' = [kind |-> "analysis", value |-> analysisOf(lastOp.post, parsed, formatPattern, viralSignals)]
  /\ lastOp' = [op |-> "analyzePost", post |-> lastOp.post]
  /\ UNCHANGED <<formatStore, clock, run>>

(* the viralityScore of an analysis as the integer that it is *)
integerOf(x) == CHOOSE n \in 0..100 : Num(n) = x

(* an analysis as learnFromPost reads it *)
analysisResult(analysis) ==
  [ formatPattern |-> formatPatternOf(analysis.formatPattern),
    viralityScore |-> integerOf(analysis.viralityScore),
    viralSignals |-> [emotionalTriggers |-> analysis.viralSignals.emotionalTriggers] ]

(* the posts that are analysed first and learned from next *)
AnalysedPosts ==
  {[platform |-> platform, content |-> content] :
     platform \in {linkedin, twitter}, content \in {"", "AI job", "Bookmark", "Stay tuned"}}

(* learnFromPost(post, analyzePost(post)) *)
LearnFromAnalysis ==
  /\ lastOp.op = "analyzePost"
  /\ \E post \in AnalysedPosts :
       /\ post.platform = lastOp.post.platform
       /\ chars(post.content) = lastOp.post.content
       /\ LearnFromPost(post, analysisResult(result.value))

NextAnalyzer ==
  \/ ParsePostContent
  \/ DetectHookType
  \/ IdentifyFormatPattern
  \/ AnalyzePost
  \/ LearnFromAnalysis

SpecAnalyzer == InitAnalyzer /\ [][NextAnalyzer]_vars
-----------------------------------------------------------------------------
(* C17: every stored format has 0 <= effectivenessScore <= 100 and an        *)
(* integer usageCount >= 0, in every state reachable through seeding, learn, *)
(* PUT, PATCH incrementUsage, PATCH updateScore, delete, clear and match.    *)
C17_ScoreAndUsageInRange ==
  \A i \in 1..Len(formatStore) :
    /\ RLe(Num(0), formatStore[i].effectivenessScore)
    /\ RLe(formatStore[i].effectivenessScore, Num(100))
    /\ formatStore[i].usageCount \in Nat

StartupMatch(at, op, before, after, res) ==
  (at = 0 /\ op.op = "findBestMatch")
  => /\ Len(before) = 3
     /\ Cardinality(platformIndexes(before, linkedin)) = 2
     /\ Cardinality(platformIndexes(before, twitter)) = 1
     /\ after = before
     /\ \E i \in platformIndexes(before, op.platform) : before[i].id = res.value.formatId
     /\ res.value.formatId
          \in {"linkedin-question-listicle", "linkedin-story-lesson", "twitter-bold-insight"}

(* C18: the startup store holds exactly three seeds, two for linkedin and    *)
(* one for twitter, so findBestMatch from the startup state returns a stored *)
(* seed of the requested platform and leaves the store as it was.            *)
C18_StartupMatchUsesSeed ==
  [][StartupMatch(clock, lastOp', formatStore, formatStore', result')]_vars

C18_Witness ==
  /\ clock = 0
  /\ lastOp.op = "findBestMatch"
  /\ lastOp.platform = twitter
  /\ result.value.formatId = "twitter-bold-insight"
  /\ Len(formatStore) = 3

(* Options the score formula is evaluated with *)
ScoreOptions ==
  MatchOptions \cup
  { [ preferredBody |-> BodyType.LESSON_LEARNED,
      preferredCTA |-> CTAType.COMMENT_PROMPT,
      minEffectiveness |-> 90 ],
    [ preferredHook |-> HookType.QUESTION,
      preferredBody |-> BodyType.INSIGHT_SHARING,
      preferredCTA |-> CTAType.QUESTION_TO_AUDIENCE,
      targetEmotions |-> <<EmotionalTrigger.HOPE, EmotionalTrigger.FEAR>> ] }

closedFormScore(format, topic, options) ==
  LET T == Len(matchingTags(format, topic))
      E == Len(emotionMatches(format, options))
      hook == IF "preferredHook" \in DOMAIN options /\ format.hookType = options.preferredHook
              THEN 1 ELSE 0
      body == IF "preferredBody" \in DOMAIN options /\ format.bodyType = options.preferredBody
              THEN 1 ELSE 0
      cta == IF "preferredCTA" \in DOMAIN options /\ format.ctaType = options.preferredCTA
             THEN 1 ELSE 0
      p == IF /\ "minEffectiveness" \in DOMAIN options
              /\ RLt(format.effectivenessScore, Num(options.minEffectiveness))
           THEN Rat(1, 2) ELSE Num(1)
      popularity == IF 2 * format.usageCount < 10 THEN 2 * format.usageCount ELSE 10
      points == RAdd(Rat(40 * format.effectivenessScore[1], 100 * format.effectivenessScore[2]),
                     Num(10 * T + 15 * hook + 15 * body + 10 * cta + 8 * E))
  IN RMin(Num(100), RAdd(RMul(p, points), Num(popularity)))

(* C19: for each stored format, calculateMatchScore is                       *)
(* min(100, p * (40*effectivenessScore/100 + 10*T + 15*[hook] + 15*[body]    *)
(* + 10*[cta] + 8*E) + min(2*usageCount, 10)), with p = 0.5 below the given  *)
(* minimum effectiveness and 1 otherwise: the popularity bonus is added      *)
(* after the penalty and is not halved by it.                                *)
C19_MatchScoreFormula ==
  \A i \in 1..Len(formatStore) : \A topic \in Topics : \A options \in ScoreOptions :
    calculateMatchScore(formatStore[i], topic, options).score
      = closedFormScore(formatStore[i], topic, options)

(* a penalised score: (70 * 0.4) * 0.5 + 10 = 24 *)
C19_Witness ==
  /\ lastOp.op = "findBestMatch"
  /\ "minEffectiveness" \in DOMAIN lastOp.options
  /\ result.value.formatId = "twitter-bold-insight"
  /\ result.value.matchScore = <<24, 1>>

-----------------------------------------------------------------------------
RoundTrip(op, before, after) ==
  (/\ op.op = "importFormats"
   /\ op.mergeStrategy = "replace"
   /\ op.formats = exportFormats(before)
   /\ before # <<>>)
  => /\ storeIds(after) = storeIds(before)
     /\ \A id \in storeIds(before) : storeGet(after, id) = storeGet(before, id)
     /\ after = before

(* C11: on a non-empty store, importFormats(exportFormats(), 'replace')      *)
(* leaves the store as it was: the same ids and, for each id, the same value *)
(* of every field.                                                           *)
C11_ExportImportRoundTrip ==
  [][RoundTrip(lastOp', formatStore, formatStore')]_vars

(* a round trip on a store that holds a format learned twice *)
C11_Witness ==
  /\ lastOp.op = "importFormats"
  /\ lastOp.mergeStrategy = "replace"
  /\ lastOp.formats = exportFormats(formatStore)
  /\ Len(formatStore) = 4
  /\ \E i \in 1..Len(formatStore) : formatStore[i].usageCount = 2

(* the record importFormats leaves under the id of an imported record, with *)
(* the merge of a conflict given as `merged` *)
importedAs(op, before, after, format, merged) ==
  IF ~storeHas(before, format.id) THEN storeGet(after, format.id) = format
  ELSE IF op.mergeStrategy = "replace" THEN storeGet(after, format.id) = format
  ELSE IF op.mergeStrategy = "skip"
  THEN storeGet(after, format.id) = storeGet(before, format.id)
  ELSE storeGet(after, format.id) = merged

meanScore(existing, format) ==
  RMul(RAdd(existing.effectivenessScore, format.effectivenessScore), Rat(1, 2))

tagUnion(existing, format) == dedupe(existing.tags \o format.tags)

ImportKeepsRest(op, before, after, at) ==
  op.op = "importFormats"
  => \A i \in 1..Len(op.formats) :
       LET format == op.formats[i]
           existing == storeGet(before, format.id)
       IN /\ storeHas(after, format.id)
          /\ importedAs(op, before, after, format,
                        [existing EXCEPT !.effectivenessScore = meanScore(existing, format),
                                         !.tags = tagUnion(existing, format)])

(* C12 as stated: an absent id is inserted under every strategy; for a       *)
(* present id 'replace' stores the imported record, 'skip' leaves the stored *)
(* record, and 'merge' keeps the stored record but sets effectivenessScore   *)
(* to the mean of the two scores and tags to the union of the tag lists.     *)
C12_ImportByStrategy ==
  [][ImportKeepsRest(lastOp', formatStore, formatStore', clock')]_vars

ImportMerges(op, before, after, at) ==
  op.op = "importFormats"
  => /\ \A i \in 1..Len(op.formats) :
          LET format == op.formats[i]
              existing == storeGet(before, format.id)
          IN /\ storeHas(after, format.id)
             /\ importedAs(op, before, after, format,
                           [existing EXCEPT
                              !.effectivenessScore = meanScore(existing, format),
                              !.usageCount = existing.usageCount + format.usageCount,
                              !.tags = tagUnion(existing, format),
                              !.updatedAt = at])
     /\ \A id \in storeIds(before) \ {op.formats[i].id : i \in 1..Len(op.formats)} :
          storeHas(after, id) /\ storeGet(after, id) = storeGet(before, id)

(* C12 amended: as C12, but 'merge' also sets usageCount to the sum of the   *)
(* two usage counts and updatedAt to the time of the import; every other     *)
(* field of the stored record, and every record not imported, is kept.       *)
C12_ImportByStrategyAmended ==
  [][ImportMerges(lastOp', formatStore, formatStore', clock')]_vars

(* a merge of the backup: one id was present, the other was inserted *)
C12_Witness ==
  /\ lastOp.op = "importFormats"
  /\ lastOp.mergeStrategy = "merge"
  /\ lastOp.formats = Backup
  /\ storeGet(formatStore, "twitter-bold-insight").effectivenessScore = <<65, 1>>
  /\ storeGet(formatStore, "twitter-bold-insight").usageCount = 400
  /\ storeGet(formatStore, "twitter-bold-insight").tags = <<"bold", "controversial", "hope">>
  /\ storeGet(formatStore, "linkedin-question-insight-sharing-question-to-audience") = Backup[2]

-----------------------------------------------------------------------------
(* Claims about the analyzer, checked under SpecAnalyzer *)

noNonBlankLine(content) == \A i \in 1..Len(split(content, newline)) : ~isNotBlank(split(content, newline)[i])

(* C15 as stated: parsePostContent never yields a negative                 *)
(* lineBreakStructure.totalLineBreaks; for a text with no non-blank line   *)
(* it yields wordCount 0, no hashtags, mentions, links or numbers, and     *)
(* totalLineBreaks 0, not -1.                                              *)
C15_LineBreaksFlooredAtZero ==
  lastOp.op = "parsePostContent"
  => /\ result.value.lineBreakStructure.totalLineBreaks >= 0
     /\ noNonBlankLine(lastOp.post.content)
        => /\ result.value.wordCount = 0
           /\ result.value.hashtags = <<>>
           /\ result.value.mentions = <<>>
           /\ result.value.links = <<>>
           /\ result.value.numbers = <<>>
           /\ result.value.lineBreakStructure.totalLineBreaks = 0

(* the match that a rule of the hook table finds in the first line, or *)
(* else in the first two lines, of a parsed post                       *)
ruleFound(parsed, pattern) ==
  orMatch(match(IF Len(parsed.lines) > 0 THEN toLowerCase(parsed.lines[1]) ELSE <<>>, pattern),
          toLowerCase(join(sliceFirst(parsed.lines, 2), <<" ">>)), pattern)

(* the hook types, by their place in the table, with a rule that matches; at position 0 *)
typesFound(parsed) ==
  {t \in 1..Len(HOOK_PATTERNS) :
     \E p \in 1..Len(HOOK_PATTERNS[t].patterns) : ruleFound(parsed, HOOK_PATTERNS[t].patterns[p]) # null}

typesFoundAtZero(parsed) ==
  {t \in 1..Len(HOOK_PATTERNS) :
     \E p \in 1..Len(HOOK_PATTERNS[t].patterns) :
       /\ ruleFound(parsed, HOOK_PATTERNS[t].patterns[p]) # null
       /\ ruleFound(parsed, HOOK_PATTERNS[t].patterns[p]).index = 0}

firstOf(types) == CHOOSE t \in types : \A u \in types : t <= u

hookAsStated(hook, parsed, atZero, anywhere) ==
  IF atZero # {}
  THEN hook.confidence = Rat(9, 10) /\ hook.type = HOOK_PATTERNS[firstOf(atZero)].type
  ELSE IF Len(parsed.lines) > 0 /\ endsWith(parsed.lines[1], <<"?">>)
  THEN hook.confidence = Rat(85, 100) /\ hook.type = HookType.QUESTION
  ELSE IF anywhere # {}
  THEN hook.confidence = Rat(7, 10) /\ hook.type = HOOK_PATTERNS[firstOf(anywhere)].type
  ELSE hook.confidence = Num(0) /\ hook.type = HookType.NONE

(* C20: detectHookType returns confidence 0.9 with the first hook type, in  *)
(* the order of the table, that has a rule matching at position 0; else     *)
(* QUESTION at 0.85 when the first line ends in '?'; else confidence 0.7    *)
(* with the first type that has a rule matching anywhere; else NONE at 0.   *)
(* So the '?' fallback never replaces a match of confidence 0.8 or more.    *)
C20_HookByPriority ==
  lastOp.op = "detectHookType"
  => \A parsed \in {parsePostContent(lastOp.post.content)} :
       \A atZero \in {typesFoundAtZero(parsed)}, anywhere \in {typesFound(parsed)} :
         hookAsStated(result.value, parsed, atZero, anywhere)

(* a later type of the table took the place of an earlier one, whose rule *)
(* matched further right, and the first line's '?' did not replace it     *)
C20_Witness ==
  /\ lastOp.op = "detectHookType"
  /\ lastOp.post.content = <<"S", "t", "o", "p", ".", " ", "I", "s", " ", "A", "I", " ", "o", "v", "e", "r", "r", "a", "t", "e", "d", "?">>
  /\ result.value.type = HookType.BOLD_STATEMENT
  /\ result.value.confidence = Rat(9, 10)

inUnitInterval(x) == RLe(Num(0), x) /\ RLe(x, Num(1))

confidencesInUnitInterval(formatPattern) ==
  /\ inUnitInterval(formatPattern.hookConfidence)
  /\ inUnitInterval(formatPattern.bodyConfidence)
  /\ inUnitInterval(formatPattern.ctaConfidence)

(* C14: for every post text and platform, the hookConfidence, bodyConfidence *)
(* and ctaConfidence that identifyFormatPattern returns, and the overall     *)
(* confidence that analyzePost returns, lie in [0,1].                        *)
C14_ConfidencesInUnitInterval ==
  /\ lastOp.op = "identifyFormatPattern" => confidencesInUnitInterval(result.value)
  /\ lastOp.op = "analyzePost"
     => inUnitInterval(result.value.confidence) /\ confidencesInUnitInterval(result.value.formatPattern)

(* the analysis of a post whose hook and body reach the highest confidence *)
(* that the detection gives, 0.9                                           *)
C14_Witness ==
  /\ lastOp.op = "analyzePost"
  /\ result.value.formatPattern.hookConfidence = Rat(9, 10)
  /\ result.value.formatPattern.bodyConfidence = Rat(9, 10)
  /\ result.value.formatPattern.ctaConfidence = Rat(85, 100)
  /\ result.value.confidence = Rat(17, 20)

(* a number of the model is a fraction in lowest terms: an integer has denominator 1 *)
isInteger(x) == x[2] = 1

(* C13: for every post, the viralityScore that analyzePost gets from        *)
(* calculateViralityScore is an integer in [0,100], also when the           *)
(* engagement rate is above 5 and the sum of the six scores is multiplied   *)
(* by 1.1.                                                                  *)
C13_ViralityScoreInRange ==
  lastOp.op = "analyzePost"
  => /\ isInteger(result.value.viralityScore)
     /\ RLe(Num(0), result.value.viralityScore)
     /\ RLe(result.value.viralityScore, Num(100))

(* a post with an engagement rate above 5 whose six scores, times 1.1, *)
(* pass 100: the score returned is 100                                 *)
C13_Witness ==
  /\ lastOp.op = "analyzePost"
  /\ lastOp.post.metrics.engagementRate > 5
  /\ result.value.viralityScore = Num(100)

(* the glyphs that open a bullet point: the bullet, the hyphen, the asterisk and the arrow *)
BulletGlyphs == {"U+2022", "-", "*", "U+2192"}

(* a newline followed by digits and a period, or by a bullet glyph *)
hasListCue(content) ==
  \E i \in 1..(Len(content) - 1) :
    /\ content[i] = "\n"
    /\ \/ content[i + 1] \in BulletGlyphs
       \/ \E j \in (i + 2)..Len(content) :
            content[j] = "." /\ \A k \in (i + 1)..(j - 1) : content[k] \in Digit

(* no rule and no indicator of any body type is found in the content *)
noBodyCue(content) ==
  \A t \in 1..Len(BODY_PATTERNS) : bodyMatchCount(toLowerCase(content), BODY_PATTERNS[t]) = Num(0)

(* C21 as stated: whenever the content holds a newline followed by digits    *)
(* and a period, or a newline followed by a bullet glyph, detectBodyType     *)
(* gives LISTICLE at confidence 0.9, whatever rules or indicators of other   *)
(* body types match; with no such cue and no rule or indicator matching it   *)
(* gives INSIGHT_SHARING at confidence 0.3.                                  *)
C21_ListCueOutranksRules ==
  lastOp.op = "identifyFormatPattern"
  => /\ hasListCue(lastOp.post.content)
        => result.value.bodyType = BodyType.LISTICLE /\ result.value.bodyConfidence = Rat(9, 10)
     /\ ~hasListCue(lastOp.post.content) /\ noBodyCue(lastOp.post.content)
        => result.value.bodyType = BodyType.INSIGHT_SHARING /\ result.value.bodyConfidence = Rat(3, 10)

(* the last three lines of a parsed post, joined and in lower case *)
lastLinesOf(parsed) == toLowerCase(join(sliceLast(parsed.lines, 3), <<" ">>))

(* the match that a call-to-action rule finds in the last three lines, or *)
(* else in the whole content, of a parsed post                            *)
ctaFound(parsed, pattern) ==
  orMatch(match(lastLinesOf(parsed), pattern), toLowerCase(parsed.original), pattern)

(* the call-to-action types, by their place in the table, with a rule that matches *)
ctaTypesFound(parsed) ==
  {t \in 1..Len(CTA_PATTERNS) :
     \E p \in 1..Len(CTA_PATTERNS[t].patterns) : ctaFound(parsed, CTA_PATTERNS[t].patterns[p]) # null}

(* those with a rule whose matched text occurs in the last three lines *)
ctaTypesInWindow(parsed) ==
  {t \in 1..Len(CTA_PATTERNS) :
     \E p \in 1..Len(CTA_PATTERNS[t].patterns) :
       /\ ctaFound(parsed, CTA_PATTERNS[t].patterns[p]) # null
       /\ includes(lastLinesOf(parsed), ctaFound(parsed, CTA_PATTERNS[t].patterns[p]).text)}

finalLineAsks(parsed) ==
  Len(parsed.lines) > 0 /\ endsWith(parsed.lines[Len(parsed.lines)], <<"?">>)

ctaAsStated(ctaType, ctaConfidence, parsed, inWindow, anywhere) ==
  IF inWindow # {}
  THEN ctaConfidence = Rat(85, 100) /\ ctaType = CTA_PATTERNS[firstOf(inWindow)].type
  ELSE IF anywhere # {}
  THEN ctaConfidence = Rat(7, 10) /\ ctaType = CTA_PATTERNS[firstOf(anywhere)].type
  ELSE IF finalLineAsks(parsed)
  THEN ctaConfidence = Rat(75, 100) /\ ctaType = CTAType.QUESTION_TO_AUDIENCE
  ELSE IF parsed.hasLinks
  THEN ctaConfidence = Rat(6, 10) /\ ctaType = CTAType.LINK
  ELSE ctaConfidence = Num(0) /\ ctaType = CTAType.NONE

(* C22: detectCTAType returns the best rule match, 0.85 when the matched   *)
(* text is found in the last three lines and else 0.7; with no rule match  *)
(* QUESTION_TO_AUDIENCE at 0.75 when the final line ends in '?'; else LINK *)
(* at 0.6 when the parser extracted a link; else NONE at 0.  A post whose  *)
(* final line ends in '?' and that matches the rules of no other type is   *)
(* QUESTION_TO_AUDIENCE with confidence 0.75 or 0.85.                      *)
C22_CTAByOrder ==
  lastOp.op = "identifyFormatPattern"
  => \A parsed \in {parsePostContent(lastOp.post.content)} :
       \A inWindow \in {ctaTypesInWindow(parsed)}, anywhere \in {ctaTypesFound(parsed)} :
         /\ ctaAsStated(result.value.ctaType, result.value.ctaConfidence, parsed, inWindow, anywhere)
         /\ finalLineAsks(parsed) /\ anywhere \subseteq {1}
            => /\ result.value.ctaType = CTAType.QUESTION_TO_AUDIENCE
               /\ result.value.ctaConfidence \in {Rat(75, 100), Rat(85, 100)}

(* a closing question that matches the rules of no other type *)
C22_Witness ==
  /\ lastOp.op = "identifyFormatPattern"
  /\ lastOp.post.content = <<"A", "I", " ", "i", "s", " ", "h", "e", "r", "e", "\n", "A", "g", "r", "e", "e", "?">>
  /\ ctaTypesFound(parsePostContent(lastOp.post.content)) = {1}
  /\ result.value.ctaType = CTAType.QUESTION_TO_AUDIENCE
  /\ result.value.ctaConfidence = Rat(85, 100)

(* C26: the fallbacks of detectCTAType are never taken.  A final line that *)
(* ends in '?' gives QUESTION_TO_AUDIENCE at 0.85 by the end-of-text rule, *)
(* an extracted link gives a rule match of 0.7 or more; so ctaConfidence   *)
(* is 0, 0.7 or 0.85, and ctaType is NONE exactly when it is 0.            *)
C26_CTAFallbacksUnreachable ==
  lastOp.op = "identifyFormatPattern"
  => \A parsed \in {parsePostContent(lastOp.post.content)} :
       /\ finalLineAsks(parsed)
          => /\ match(lastLinesOf(parsed), CTA_PATTERNS[1].patterns[1]) # null
             /\ result.value.ctaType = CTAType.QUESTION_TO_AUDIENCE
             /\ result.value.ctaConfidence = Rat(85, 100)
       /\ parsed.hasLinks
          => /\ match(toLowerCase(parsed.original), CTA_PATTERNS[2].patterns[1]) # null
             /\ RLe(Rat(7, 10), result.value.ctaConfidence)
       /\ result.value.ctaConfidence \in {Num(0), Rat(7, 10), Rat(85, 100)}
       /\ result.value.ctaType = CTAType.NONE <=> result.value.ctaConfidence = Num(0)

(* a post with a link, settled by the rule for links *)
C26_Witness ==
  /\ lastOp.op = "identifyFormatPattern"
  /\ parsePostContent(lastOp.post.content).hasLinks
  /\ result.value.ctaType = CTAType.LINK
  /\ result.value.ctaConfidence = Rat(85, 100)

(* the base of the call-to-action term, by type *)
ctaBase(ctaType) ==
  CASE ctaType = CTAType.QUESTION_TO_AUDIENCE -> 15
    [] ctaType = CTAType.ENGAGEMENT_BAIT -> 14
    [] ctaType = CTAType.COMMENT_PROMPT -> 13
    [] ctaType = CTAType.SHARE -> 12
    [] ctaType = CTAType.SAVE_FOR_LATER -> 11
    [] ctaType = CTAType.LINK -> 10
    [] ctaType = CTAType.FOLLOW_UP -> 9
    [] ctaType = CTAType.NONE -> 5

(* min(15, base(ctaType) + ctaConfidence*5 - 5) *)
ctaTermByTable(formatPattern) ==
  RMin(Num(15), RSub(RAdd(Num(ctaBase(formatPattern.ctaType)), RMul(formatPattern.ctaConfidence, Num(5))),
                     Num(5)))

(* the same, but 5 for the type NONE *)
ctaTermExceptNone(formatPattern) ==
  IF formatPattern.ctaType = CTAType.NONE THEN Num(5) ELSE ctaTermByTable(formatPattern)

(* the virality score of a post whose call-to-action term is ctaTerm *)
scoreWithCTATerm(post, parsed, formatPattern, signals, ctaTerm) ==
  RMin(Num(100),
       Num(round(boosted(post,
         RAdd(RAdd(RAdd(calculateHookScore(formatPattern), calculateBodyScore(parsed, formatPattern)),
                   ctaTerm),
              Num(calculateEmotionalScore(signals) + calculateFormatScore(parsed, post.platform)
                  + calculatePlatformFitScore(parsed, post.platform)))))))

(* C23 as stated: for every call-to-action type, NONE included, the term of *)
(* the virality score for the call to action is                             *)
(* min(15, base(ctaType) + ctaConfidence*5 - 5), with base 15, 14, 13, 12,  *)
(* 11, 10, 9 and 5 for QUESTION_TO_AUDIENCE, ENGAGEMENT_BAIT,               *)
(* COMMENT_PROMPT, SHARE, SAVE_FOR_LATER, LINK, FOLLOW_UP and NONE.         *)
C23_CTATermByTable ==
  lastOp.op = "analyzePost"
  => \A parsed \in {parsePostContent(lastOp.post.content)} :
       result.value.viralityScore
         = scoreWithCTATerm(lastOp.post, parsed, result.value.formatPattern, result.value.viralSignals,
                            ctaTermByTable(result.value.formatPattern))

(* C23, amended: the term is min(15, base(ctaType) + ctaConfidence*5 - 5) *)
(* for every type but NONE, and 5 for NONE.                               *)
C23_CTATermExceptNone ==
  lastOp.op = "analyzePost"
  => \A parsed \in {parsePostContent(lastOp.post.content)} :
       result.value.viralityScore
         = scoreWithCTATerm(lastOp.post, parsed, result.value.formatPattern, result.value.viralSignals,
                            ctaTermExceptNone(result.value.formatPattern))

(* a post without a call to action, scored with the term 5 where the table gives 0 *)
C23_Witness ==
  /\ lastOp.op = "analyzePost"
  /\ result.value.formatPattern.ctaType = CTAType.NONE
  /\ result.value.formatPattern.ctaConfidence = Num(0)
  /\ ctaTermByTable(result.value.formatPattern) = Num(0)
  /\ result.value.viralityScore
       = scoreWithCTATerm(lastOp.post, parsePostContent(lastOp.post.content), result.value.formatPattern,
                          result.value.viralSignals, Num(5))

(* the lower bounds of five terms of the virality score *)
termsAtLeast(parsed, formatPattern, platform) ==
  /\ RLe(Num(5), calculateHookScore(formatPattern))
  /\ RLe(Rat(3, 10), formatPattern.bodyConfidence)
  /\ RLe(Rat(121, 10), calculateBodyScore(parsed, formatPattern))
  /\ RLe(Num(5), calculateCTAScore(formatPattern))
  /\ 5 <= calculateFormatScore(parsed, platform)
  /\ 5 <= calculatePlatformFitScore(parsed, platform)

(* C29: for every post that analyzePost analyses the viralityScore is at  *)
(* least 32: the hook term is at least 5, the body term at least 12.1     *)
(* with a bodyConfidence of 0.3 or more, the terms for the call to        *)
(* action, the format and the platform fit at least 5 each.  A record     *)
(* that learnFromPost creates from an analysed post has an                *)
(* effectivenessScore of 32 or more.                                      *)
C29_ViralityScoreAtLeast32 ==
  /\ lastOp.op = "analyzePost"
     => /\ RLe(Num(32), result.value.viralityScore)
        /\ \A parsed \in {parsePostContent(lastOp.post.content)} :
             termsAtLeast(parsed, result.value.formatPattern, lastOp.post.platform)
  /\ lastOp.op = "learnFromPost" /\ result.value.createdAt = clock
     => RLe(Num(32), result.value.effectivenessScore)

(* the record created from the empty post, whose analysis scores 32 *)
C29_Witness ==
  /\ lastOp.op = "learnFromPost"
  /\ lastOp.post.content = ""
  /\ result.value.usageCount = 1
  /\ result.value.createdAt = clock
  /\ result.value.effectivenessScore = Num(32)
  /\ storeHas(formatStore, result.value.id)

-----------------------------------------------------------------------------
(* generateFormatId applied to a platform and a format pattern.  The id is *)
(* kept as its characters.                                                 *)

FormatPatterns ==
  {[hookType |-> hookType, bodyType |-> bodyType, ctaType |-> ctaType] :
     hookType \in HookTypes, bodyType \in BodyTypes, ctaType \in CTATypes}

InitFormatId ==
  /\ formatStore = initializeDefaultFormats(<<>>, 0)
  /\ clock = 0
  /\ \E platform \in Platform, formatPattern \in FormatPatterns :
       lastOp = [op |-> "formatPattern", platform |-> platform, formatPattern |-> formatPattern]
  /\ result = [kind |-> "void"]
  /\ run = NoRun

GenerateFormatId ==
  /\ lastOp.op = "formatPattern"
  /\ result' = [kind |-> "id", value |-> formatIdChars(lastOp.formatPattern, lastOp.platform)]
  /\ lastOp' = [lastOp EXCEPT !.op = "generateFormatId"]
  /\ UNCHANGED <<formatStore, clock, run>>

NextFormatId == GenerateFormatId

SpecFormatId == InitFormatId /\ [][NextFormatId]_vars

(* the id of every platform and format pattern *)
formatIds ==
  [platform \in Platform |-> [formatPattern \in FormatPatterns |-> formatIdChars(formatPattern, platform)]]

(* C27: generateFormatId is injective on the 2 platforms, 9 hook types, 10 *)
(* body types and 8 call-to-action types: an id is the id of one platform  *)
(* and one format pattern only, though the underscores inside the values   *)
(* become the '-' that separates them.                                     *)
C27_FormatIdInjective ==
  lastOp.op = "generateFormatId"
  => \A platform \in Platform, formatPattern \in FormatPatterns :
       formatIds[platform][formatPattern] = result.value
         => platform = lastOp.platform /\ formatPattern = lastOp.formatPattern

(* an id with underscores replaced inside each of its three values *)
C27_Witness ==
  /\ lastOp.op = "generateFormatId"
  /\ lastOp.formatPattern = [hookType |-> HookType.HOW_TO, bodyType |-> BodyType.STORY_DRIVEN,
                             ctaType |-> CTAType.FOLLOW_UP]
  /\ result.value = <<"t", "w", "i", "t", "t", "e", "r", "-", "h", "o", "w", "-", "t", "o", "-", "s", "t", "o", "r", "y", "-", "d", "r", "i", "v", "e", "n", "-", "f", "o", "l", "l", "o", "w", "-", "u", "p">>

-----------------------------------------------------------------------------
(* Claims about learnFromPost and the records it leaves alone, checked under Spec *)

(* the fields of a record that a second learnFromPost keeps *)
keptFields(f) ==
  [ id |-> f.id, name |-> f.name, description |-> f.description, platform |-> f.platform,
    hookType |-> f.hookType, bodyType |-> f.bodyType, ctaType |-> f.ctaType,
    template |-> f.template, examplePost |-> f.examplePost, tags |-> f.tags,
    createdAt |-> f.createdAt ]

LearnKeepsTheRest(op, before, after) ==
  (op.op = "learnFromPost" /\ storeHas(before, learnedId(op)))
  => /\ Len(after) = Len(before)
     /\ \A i \in 1..Len(before) :
          IF before[i].id = learnedId(op)
          THEN /\ keptFields(after[i]) = keptFields(before[i])
               /\ DOMAIN after[i] = DOMAIN before[i]
          ELSE after[i] = before[i]

(* C24: a learnFromPost call that hits an existing record changes only its *)
(* effectivenessScore, usageCount and updatedAt; its id, name,             *)
(* description, platform, hookType, bodyType, ctaType, template,           *)
(* examplePost, tags and createdAt stay, and so does every other record.   *)
C24_LearnChangesThreeFields ==
  [][LearnKeepsTheRest(lastOp', formatStore, formatStore')]_vars

(* a record learned again from another post with another trigger: the *)
(* example post and the tags are those of the first post              *)
C24_Witness ==
  /\ lastOp.op = "learnFromPost"
  /\ lastOp.post.content = "AI job"
  /\ lastOp.analysis.viralSignals.emotionalTriggers = <<EmotionalTrigger.HOPE>>
  /\ result.value.usageCount = 2
  /\ result.value.examplePost = ""
  /\ result.value.tags = <<>>
  /\ result.value.updatedAt > result.value.createdAt

(* the ids of the seed records and of the default records *)
SeedIds == {"linkedin-question-listicle", "linkedin-story-lesson", "twitter-bold-insight"}

DefaultIds == {"default-linkedin", "default-twitter"}

LearnSparesSeeds(op, before, after) ==
  op.op = "learnFromPost"
  => /\ learnedId(op) \notin SeedIds \cup DefaultIds
     /\ \A id \in SeedIds \cup DefaultIds :
          /\ storeHas(after, id) <=> storeHas(before, id)
          /\ storeHas(before, id) => storeGet(after, id) = storeGet(before, id)

(* C25: no learnFromPost call for linkedin or twitter creates, replaces or *)
(* updates a seed record or a 'default-<platform>' record: the id that     *)
(* learn derives is none of theirs, also for a post with the hook, body    *)
(* and call to action of a seed.                                           *)
C25_LearnSparesSeeds ==
  [][LearnSparesSeeds(lastOp', formatStore, formatStore')]_vars

(* a post with the platform and the triad of the first seed, learned into *)
(* a record of its own next to the seed                                   *)
C25_Witness ==
  /\ lastOp.op = "learnFromPost"
  /\ lastOp.post.platform = linkedin
  /\ lastOp.analysis.formatPattern = formatPatternOf(storeGet(defaultFormats(0), "linkedin-question-listicle"))
  /\ storeHas(formatStore, "linkedin-question-listicle")
  /\ storeGet(formatStore, "linkedin-question-listicle").usageCount = 100
  /\ result.value.id = "linkedin-question-listicle-save-for-later"
  /\ result.value.usageCount = 1

-----------------------------------------------------------------------------
(* A claim about the backup operations, checked under SpecBackup *)

MergeOfOwnExport(op, before, after) ==
  (/\ op.op = "importFormats"
   /\ op.mergeStrategy = "merge"
   /\ op.formats = exportFormats(before))
  => /\ storeIds(after) = storeIds(before)
     /\ \A id \in storeIds(before) :
          /\ storeGet(after, id).effectivenessScore = storeGet(before, id).effectivenessScore
          /\ Range(storeGet(after, id).tags) = Range(storeGet(before, id).tags)
          /\ storeGet(after, id).usageCount = 2 * storeGet(before, id).usageCount
     /\ (\E id \in storeIds(before) : storeGet(before, id).usageCount > 0) => after # before

(* C28: importFormats(exportFormats()) with the strategy 'merge' leaves the *)
(* effectivenessScore and the set of tags of every record and doubles its   *)
(* usageCount, so it is not the identity on the store; done twice, it       *)
(* multiplies the usageCount by 4.                                          *)
C28_MergeOfExportDoublesUsage ==
  [][MergeOfOwnExport(lastOp', formatStore, formatStore')]_vars

(* the first seed after two merges of the store's own export: 100, 200, 400 *)
C28_Witness ==
  /\ lastOp.op = "importFormats"
  /\ lastOp.mergeStrategy = "merge"
  /\ \E i \in 1..Len(lastOp.formats) :
       /\ lastOp.formats[i].id = "linkedin-question-listicle"
       /\ lastOp.formats[i].usageCount = 2 * defaultFormats(0)[1].usageCount
  /\ storeGet(formatStore, "linkedin-question-listicle").usageCount = 4 * defaultFormats(0)[1].usageCount
  /\ storeGet(formatStore, "linkedin-question-listicle").effectivenessScore
       = defaultFormats(0)[1].effectivenessScore

-----------------------------------------------------------------------------
(* A claim about findBestMatch, checked under Spec *)

(* C30: findBestMatch for linkedin or twitter never returns null, and the  *)
(* formatId it returns names a record that is in the store when the call   *)
(* returns and has the requested platform, in every store that learn,      *)
(* match, delete and clear calls lead to.                                  *)
C30_MatchNamesStoredFormat ==
  lastOp.op = "findBestMatch"
  => /\ result.kind = "match"
     /\ storeHas(formatStore, result.value.formatId)
     /\ storeGet(formatStore, result.value.formatId).platform = lastOp.platform

(* a match on a cleared store: the default format is the only record *)
C30_Witness ==
  /\ lastOp.op = "findBestMatch"
  /\ lastOp.platform = linkedin
  /\ result.value.formatId = "default-linkedin"
  /\ storeIds(formatStore) = {"default-linkedin"}
  /\ storeGet(formatStore, "default-linkedin").platform = linkedin
====
